---- MODULE Spec2Model ----
(***************************************************************************)
(* State-machine model of server.js (YouTube download API): the request   *)
(* handlers of /api/downloader/ytmp3, /api/download/ytmp3,                 *)
(* /api/downloader/ytmp4, /api/search and /download/:filename, the         *)
(* metadata resolver getVideoInfo, the format fallback chain, the tunnel   *)
(* delegation requestCobaltDownload, and the download directory with its   *)
(* per-file deletion timers and the periodic sweep cleanupOldFiles.        *)
(*                                                                         *)
(* Strings that the code inspects (URLs, error messages) are sequences:    *)
(* a URL is a sequence of one-character strings, an error message is a     *)
(* sequence of text fragments.  One action is the code that runs between   *)
(* two awaits of a handler: the return of the awaited call, the            *)
(* synchronous code after it, and the issue of the next awaited call.      *)
(* Time is in milliseconds.                                                *)
(***************************************************************************)
EXTENDS Integers, Sequences, FiniteSets, TLC

VARIABLES
    API_KEY,      \* configured key, "" when none is configured (server.js:32)
    COBALT_URL,   \* configured tunnel endpoint, "" when none (server.js:34)
    isVercel,     \* serverless deployment mode (server.js:27)
    cookies,      \* the cookie file: "absent", "empty" or "nonempty"
    now,          \* Date.now()
    files,        \* the download directory: filename -> mtimeMs
    timers,       \* pending per-file deletion timers (setTimeout)
    nextSweep,    \* when the setInterval(cleanupOldFiles) next fires
    req,          \* per request: inputs, position, locals, calls made, response
    dl,           \* the last answer of GET /download/:filename
    cookieWrites  \* how often the cookie file has been replaced

vars == <<API_KEY, COBALT_URL, isVercel, cookies, now, files, timers, nextSweep, req, dl,
          cookieWrites>>

----------------------------------------------------------------------------
(* Program constants *)

FILE_CLEANUP_AGE == 30000
SWEEP_INTERVAL == 120000
SETTLE_FLAT == 1000
SETTLE_NESTED == 500
SEARCH_LIMIT == 20
VIDEO_ID_LEN == 11

\* what README.md documents: the age limit (also as the default of the
\* FILE_CLEANUP_AGE setting) and the period of the cleanup scan
README_CLEANUP_AGE == 3600000
README_SWEEP_INTERVAL == 1800000

(* Bounds of the model *)

\* the durations 0..MaxSeconds are formatted
MaxSeconds == 7325

\* the index returns at most this many candidates to /api/search
MaxResults == 22
\* the cookie file is replaced at most this often in a run
MaxCookieChanges == 1

----------------------------------------------------------------------------
(* Strings *)

\* String.prototype.includes
Includes(s, sub) ==
    \E i \in 0..(Len(s) - Len(sub)) : SubSeq(s, i + 1, i + Len(sub)) = sub

Lower == {"a","b","c","d","e","f","g","h","i","j","k","l","m",
          "n","o","p","q","r","s","t","u","v","w","x","y","z"}
Upper == {"A","B","C","D","E","F","G","H","I","J","K","L","M",
          "N","O","P","Q","R","S","T","U","V","W","X","Y","Z"}
Digit == {"0","1","2","3","4","5","6","7","8","9"}
\* the class [a-zA-Z0-9_-]
IdChar == Lower \cup Upper \cup Digit \cup {"_", "-"}

S_youtube_com == <<"y","o","u","t","u","b","e",".","c","o","m">>
S_youtu_be    == <<"y","o","u","t","u",".","b","e">>
S_youtu_be_slash == S_youtu_be \o <<"/">>
S_v_eq        == <<"v","=">>

\* the routes' host check: url.includes('youtube.com') || url.includes('youtu.be')
HostRecognized(url) == Includes(url, S_youtube_com) \/ Includes(url, S_youtu_be)

\* positions (0-based) at which /(?:youtu\.be\/|v=)([a-zA-Z0-9_-]{11})/ matches,
\* each with the offset just after the prefix
IdMatchAt(url, i, prefix) ==
    /\ i + Len(prefix) + VIDEO_ID_LEN <= Len(url)
    /\ SubSeq(url, i + 1, i + Len(prefix)) = prefix
    /\ \A k \in 1..VIDEO_ID_LEN : url[i + Len(prefix) + k] \in IdChar

IdMatches(url) ==
    { i \in 0..Len(url) : IdMatchAt(url, i, S_youtu_be_slash) \/ IdMatchAt(url, i, S_v_eq) }

Min(S) == CHOOSE x \in S : \A y \in S : x <= y

\* url.match(...)[1]: the capture of the leftmost match, <<>> when there is no match
\* (the first alternative is tried first at each position)
MatchVideoId(url) ==
    IF IdMatches(url) = {} THEN <<>>
    ELSE LET i == Min(IdMatches(url))
             p == IF IdMatchAt(url, i, S_youtu_be_slash) THEN S_youtu_be_slash ELSE S_v_eq
         IN  SubSeq(url, i + Len(p) + 1, i + Len(p) + VIDEO_ID_LEN)

VID == <<"d","Q","w","4","w","9","W","g","X","c","Q">>

U_short   == S_youtu_be_slash \o VID
U_watch   == S_youtube_com \o <<"/","w","a","t","c","h","?">> \o S_v_eq \o VID
U_noId    == S_youtube_com \o <<"/","a","b","o","u","t">>
U_shortId == S_youtu_be_slash \o SubSeq(VID, 1, VIDEO_ID_LEN - 1)
U_other   == <<"v","i","m","e","o",".","c","o","m","/","?">> \o S_v_eq \o VID
U_plain   == <<"c","a","t","s">>
U_missing == <<>>

\* the url query parameters a run draws from
Urls == {U_short, U_watch, U_noId, U_shortId, U_other, U_plain, U_missing}

----------------------------------------------------------------------------
(* Error messages: sequences of text fragments; <<>> is the empty message *)

MsgIncludes(msg, frag) == \E i \in DOMAIN msg : msg[i] = frag

SIGN_IN == "Sign in to confirm"
AUTHENTICATION == "authentication"
FORMAT_NA == "Requested format is not available"

E_auth    == <<"ERROR: ", SIGN_IN, " you are not a bot">>
E_fmt     == <<"ERROR: ", FORMAT_NA>>
E_fmtAuth == <<"ERROR: ", FORMAT_NA, "; ", AUTHENTICATION, " required">>
E_other   == <<"ERROR: ", "HTTP Error 403">>
E_empty   == <<>>
E_yts     == <<"socket hang up">>
E_ffmpeg  == <<"ffmpeg exited with code 1">>
E_cobalt  == <<"error.api.fetch.fail">>
E_fetch   == <<"fetch failed">>

\* what yt-dlp may fail with when asked for metadata / for a download
InfoErrors  == {E_auth, E_fmt, E_fmtAuth, E_other, E_empty}
ChainErrors == {E_auth, E_other}
\* what downloadAudioWithYtdlCore rejects with: the wrapped ffmpeg error
\* (server.js:257) or the error thrown while setting up (server.js:265)
AltErrors   == {<<"Audio conversion failed: ">> \o E_ffmpeg, E_empty}

\* the test of server.js:374, 483 and 761
IsAuthError(msg) ==
    msg # <<>> /\ (MsgIncludes(msg, SIGN_IN) \/ MsgIncludes(msg, AUTHENTICATION))

\* the test of server.js:345
IsFormatError(msg) == msg # <<>> /\ MsgIncludes(msg, FORMAT_NA)

AUTH_MESSAGE ==
    <<"YouTube ", AUTHENTICATION,
      " failed. Cookies may be expired or invalid. Please update cookies.txt with fresh cookies from your browser.">>
M_INVALID_URL == <<"Invalid YouTube URL">>
M_URL_REQUIRED == <<"URL parameter is required">>
M_Q_REQUIRED == <<"Query parameter \"q\" is required">>
M_INVALID_KEY == <<"Invalid API key">>
M_NOT_FOUND_AFTER == <<"File not found after download">>
M_FILE_NOT_FOUND == <<"File not found">>
M_INTERNAL == <<"Internal server error">>
M_SEARCH_FAILED == <<"Search failed">>
M_NO_VIDEOS == <<"No videos found">>

\* `Failed to get video info: ${error.message}`
FailedInfo(msg) == <<"Failed to get video info: ">> \o msg
\* `Download failed: ${message}`
DownloadFailed(msg) == <<"Download failed: ">> \o msg

\* a || b on strings
OrElse(a, b) == IF a # <<>> THEN a ELSE b

----------------------------------------------------------------------------
(* What the search index returns: candidate i of a result list.  An absent *)
(* (null / undefined) field is <<>>.                                       *)

Cand(i) ==
    [ videoId     |-> <<"id", i>>,
      title       |-> IF i % 2 = 0 THEN <<>> ELSE <<"title", i>>,
      url         |-> <<"https://youtube.com/watch?v=", i>>,
      thumbnail   |-> IF i % 2 = 0 THEN <<>> ELSE <<"thumb", i>>,
      duration    |-> IF i % 2 = 0 THEN <<>>
                      ELSE << [seconds |-> 75 * i, timestamp |-> <<"ts", i>>] >>,
      views       |-> 1000 * i,
      author      |-> IF i % 3 = 0 THEN <<>>
                      ELSE << [name |-> <<"author", i>>, url |-> <<"channel", i>>] >>,
      description |-> IF i % 2 = 0 THEN <<>> ELSE <<"description", i>> ]

\* the first n candidates of the index, in index order
Videos(n) == [i \in 1..n |-> Cand(i)]

\* the result lists a lookup of the resolver may return
LookupResults == { <<>>, <<Cand(1)>>, <<Cand(2), Cand(1)>> }

\* what yt-dlp --dump-single-json may return
InfoResults ==
    { [title |-> <<"info title">>, duration |-> 3725,
       thumbnail |-> <<"info thumb">>, description |-> <<>>] }

DEFAULT_TITLE == <<"YouTube Video">>

\* server.js:296-301 and 358-363
MetaFromVideo(video) ==
    [ title       |-> OrElse(video.title, DEFAULT_TITLE),
      duration    |-> IF video.duration # <<>> THEN video.duration[1].seconds ELSE 0,
      thumbnail   |-> video.thumbnail,
      description |-> video.description ]

\* server.js:335-340
MetaFromInfo(info) ==
    [ title       |-> OrElse(info.title, DEFAULT_TITLE),
      duration    |-> info.duration,
      thumbnail   |-> info.thumbnail,
      description |-> info.description ]

\* search.videos && search.videos.length > 0
HasVideos(videos) == Len(videos) > 0

----------------------------------------------------------------------------
(* Requests *)

API_NAME == "YouTube Download API"
CREATOR_NAME == API_NAME

\* the apikey query parameters a run draws from ("" is an absent parameter)
ApiKeys == {"", "secret", "wrong"}
\* the q query parameters a run draws from
Queries == {U_missing, U_plain, U_short}

FormatOptions ==
    << "bestaudio[abr<=128]/bestaudio[abr<=128k]/bestaudio[ext=m4a][abr<=128]",
       "bestaudio[ext=m4a][abr<=128]/bestaudio[ext=webm][abr<=128]",
       "bestaudio[ext=m4a]/bestaudio[ext=webm]/bestaudio/best",
       "bestaudio/best",
       "best[ext=m4a]/best",
       "best" >>
VIDEO_FORMAT == "best[ext=mp4]/best"
INFO_FORMAT == "best"

\* a request that has not arrived yet
Idle ==
    [ route      |-> "none",   \* "flat_mp3", "nested_mp3", "flat_mp4" or "search"
      url        |-> <<>>,
      apikey     |-> "",
      q          |-> <<>>,
      pc         |-> "idle",   \* the await the handler is suspended at, or "done"
      videoId    |-> <<>>,
      videoInfo  |-> <<>>,     \* <<metadata>> once resolved
      infoError  |-> <<>>,     \* getVideoInfo's caught yt-dlp error message
      fmt        |-> 0,        \* index of the format specifier being tried
      lastError  |-> <<>>,     \* null, or <<message>> of the last failed specifier
      filename   |-> <<>>,     \* <<filename>> once staged
      settleAt   |-> 0,        \* when the settle delay ends
      log        |-> <<>>,     \* the external calls issued, in order
      firstError |-> <<>>,     \* history: <<message>> of the first failed specifier
      resp       |-> <<>> ]    \* the HTTP responses sent

\* fs.existsSync(COOKIES_PATH) && statSync(COOKIES_PATH).size > 0
UseCookies == cookies = "nonempty"

Call(op, arg, ck) == [op |-> op, arg |-> arg, cookies |-> ck]

\* an external call that takes no cookie file
Log(rq, pc, op, arg) ==
    [rq EXCEPT !.pc = pc, !.log = Append(@, Call(op, arg, FALSE))]

\* an invocation of yt-dlp: the cookie file is passed iff it is there and non-empty
LogYtdlp(rq, pc, op, arg) ==
    [rq EXCEPT !.pc = pc, !.log = Append(@, Call(op, arg, UseCookies))]

\* res.status(http).json(body), sent at the instant `at`; every path returns
\* after it
Respond(rq, http, body) ==
    [rq EXCEPT !.pc = "done",
               !.resp = Append(@, [http |-> http, body |-> body, at |-> now])]

FlatError(msg) == [status |-> FALSE, creator |-> API_NAME, error |-> msg]

\* a nested-shape error that always carries the status of the catch-all handler
NestedError_Always500(code, msg) ==
    [status |-> 500, success |-> FALSE, creator |-> CREATOR_NAME, error |-> msg]

\* server.js:54-61, 562-567, 650-655, 686-691
NestedError(code, msg) ==
    [status |-> code, success |-> FALSE, creator |-> CREATOR_NAME, error |-> msg]

IsNested(rq) == rq.route = "nested_mp3"

\* `${BASE_URL}/download/${filename}`
LocalUrl(fn) == [base |-> "BASE_URL", path |-> "/download/", filename |-> <<fn>>]
\* a URL handed out by the tunnel service
TunnelUrl == [base |-> "https://cobalt.example", path |-> "/tunnel?id=1", filename |-> <<>>]

----------------------------------------------------------------------------
(* The format fallback chain: staging and issuing the attempts *)

\* the chain deciding about the cookie file once, at its first attempt
StartFormat_CookiesOnce(rq, i) ==
    IF i = 1 THEN LogYtdlp([rq EXCEPT !.fmt = i], "format", "ytdlp", FormatOptions[i])
    ELSE [rq EXCEPT !.fmt = i, !.pc = "format",
                    !.log = Append(@, Call("ytdlp", FormatOptions[i], @[Len(@)].cookies))]

\* the chain walking its specifiers from the last to the first
StartFormat_Reversed(rq, i) ==
    LogYtdlp([rq EXCEPT !.fmt = i], "format", "ytdlp",
             FormatOptions[Len(FormatOptions) + 1 - i])

\* server.js:437-461 and 610-632: issue attempt i of the chain
StartFormat(rq, i) ==
    LogYtdlp([rq EXCEPT !.fmt = i], "format", "ytdlp", FormatOptions[i])

\* server.js:418-435 and 593-609
StageAudio(rq) ==
    StartFormat([rq EXCEPT !.filename = << [kind |-> "audio", ts |-> now, ext |-> "mp3"] >>,
                           !.lastError = <<>>], 1)

\* server.js:731-756
StageVideo(rq) ==
    LogYtdlp([rq EXCEPT !.filename = << [kind |-> "video", ts |-> now, ext |-> "mp4"] >>],
             "video", "ytdlp", VIDEO_FORMAT)

\* the nested route asking the tunnel service whether or not one is configured
InfoOk_AlwaysTunnel(rq, meta) ==
    LET rq1 == [rq EXCEPT !.videoInfo = <<meta>>, !.infoError = <<>>]
    IN  CASE rq.route = "flat_mp3" -> StageAudio(rq1)
          [] rq.route = "flat_mp4" -> StageVideo(rq1)
          [] OTHER -> Log(rq1, "cobalt", "cobalt", "audio")

\* what each route does with the resolver's metadata; getVideoInfo's caught
\* error goes out of scope
\* (server.js:418, 583-592 with 80, 731)
InfoOk(rq, meta) ==
    LET rq1 == [rq EXCEPT !.videoInfo = <<meta>>, !.infoError = <<>>]
    IN  CASE rq.route = "flat_mp3" -> StageAudio(rq1)
          [] rq.route = "flat_mp4" -> StageVideo(rq1)
          [] OTHER -> IF COBALT_URL = "" THEN StageAudio(rq1)
                      ELSE Log(rq1, "cobalt", "cobalt", "audio")

\* the handler learning of the resolver's failure only after it has asked the
\* tunnel service
InfoFailed_AfterTunnel(rq, msg) ==
    LET rq1 == [rq EXCEPT !.log = Append(@, Call("cobalt", "audio", FALSE))]
    IN  IF IsNested(rq) THEN Respond(rq1, 500, NestedError(500, OrElse(msg, M_INTERNAL)))
        ELSE Respond(rq1, 500, FlatError(msg))

\* what each route does when getVideoInfo throws
\* (server.js:410-416, 723-729; 684-692 for the nested route)
InfoFailed(rq, msg) ==
    IF IsNested(rq) THEN Respond(rq, 500, NestedError(500, OrElse(msg, M_INTERNAL)))
    ELSE Respond(rq, 500, FlatError(msg))

----------------------------------------------------------------------------
(* getVideoInfo *)

\* server.js:274-285: the identifier is extracted, then the first lookup is issued
GetVideoInfo(rq) ==
    LET id == MatchVideoId(rq.url)
    IN  IF id = <<>> THEN InfoFailed(rq, M_INVALID_URL)
        ELSE Log([rq EXCEPT !.videoId = id], "yts_id", "yts", "videoId")

\* server.js:309-332: the heavyweight tool is issued
StartYtdlpInfo(rq) == LogYtdlp(rq, "ytdlp_info", "ytdlp_info", INFO_FORMAT)

\* server.js:373-378
InfoThrow(rq, msg) ==
    IF IsAuthError(msg) THEN InfoFailed(rq, AUTH_MESSAGE)
    ELSE InfoFailed(rq, FailedInfo(msg))

\* what a structured lookup may do: throw, or return a list of candidates
LookupOutcomes ==
    { [throw |-> TRUE, videos |-> <<>>] } \cup
    { [throw |-> FALSE, videos |-> v] : v \in LookupResults }

\* server.js:285-307: yts({ videoId }) returned
AfterYtsId(rq, o) ==
        IF o.throw THEN StartYtdlpInfo(rq)
        ELSE IF ~HasVideos(o.videos) THEN Log(rq, "yts_url", "yts", "url")
        ELSE InfoOk(rq, MetaFromVideo(o.videos[1]))

\* the second lookup's candidates being ignored
AfterYtsUrl_Heavy(rq, o) == StartYtdlpInfo(rq)

\* server.js:290-307: yts(url) returned
AfterYtsUrl(rq, o) ==
        IF o.throw \/ ~HasVideos(o.videos) THEN StartYtdlpInfo(rq)
        ELSE InfoOk(rq, MetaFromVideo(o.videos[1]))

\* what yt-dlp may do when asked for metadata
InfoOutcomes ==
    { [ok |-> TRUE, info |-> i, err |-> <<>>] : i \in InfoResults } \cup
    { [ok |-> FALSE, info |-> <<>>, err |-> e] : e \in InfoErrors }

\* the lookup being repeated whatever the tool's error says
AfterYtdlpInfo_AlwaysRetry(rq, o) ==
    IF o.ok THEN InfoOk(rq, MetaFromInfo(o.info))
    ELSE Log([rq EXCEPT !.infoError = o.err], "yts_id2", "yts", "videoId")

\* server.js:332-349 and 373-378: ytdlp(url, options) returned
AfterYtdlpInfo(rq, o) ==
    IF o.ok THEN InfoOk(rq, MetaFromInfo(o.info))
    ELSE IF IsFormatError(o.err)
         THEN Log([rq EXCEPT !.infoError = o.err], "yts_id2", "yts", "videoId")
         ELSE InfoThrow(rq, o.err)

\* server.js:349-371: the repeated yts({ videoId }) returned
AfterYtsId2(rq, o) ==
        IF o.throw THEN InfoFailed(rq, FailedInfo(rq.infoError))
        ELSE IF ~HasVideos(o.videos) THEN Log(rq, "yts_url2", "yts", "url")
        ELSE InfoOk(rq, MetaFromVideo(o.videos[1]))

\* server.js:352-378: the repeated yts(url) returned
AfterYtsUrl2(rq, o) ==
        IF o.throw THEN InfoFailed(rq, FailedInfo(rq.infoError))
        ELSE IF HasVideos(o.videos) THEN InfoOk(rq, MetaFromVideo(o.videos[1]))
        ELSE InfoThrow(rq, rq.infoError)

----------------------------------------------------------------------------
(* formatDurationTimestamp *)

DigitChars == <<"0","1","2","3","4","5","6","7","8","9">>

RECURSIVE ToDecimal(_)
\* String(n) for an integer n >= 0
ToDecimal(n) ==
    IF n < 10 THEN <<DigitChars[n + 1]>>
    ELSE ToDecimal(n \div 10) \o <<DigitChars[(n % 10) + 1]>>

\* a field written without its padding
PadStart2_None(n) == ToDecimal(n)

\* String(n).padStart(2, '0')
PadStart2(n) == IF Len(ToDecimal(n)) < 2 THEN <<"0">> \o ToDecimal(n) ELSE ToDecimal(n)

\* server.js:67-77
formatDurationTimestamp(totalSeconds) ==
    LET s == totalSeconds
        hours == s \div 3600
        minutes == (s % 3600) \div 60
        seconds == s % 60
    IN  IF hours > 0
        THEN ToDecimal(hours) \o <<":">> \o PadStart2(minutes) \o <<":">> \o PadStart2(seconds)
        ELSE ToDecimal(minutes) \o <<":">> \o PadStart2(seconds)

----------------------------------------------------------------------------
(* The chain's attempts, the alternate pathway, the settle delay *)

\* what an extraction may do: succeed or fail, having written the output file or not
DownloadOutcomes(errs) ==
    { [ok |-> TRUE, wrote |-> w, err |-> <<>>] : w \in BOOLEAN } \cup
    { [ok |-> FALSE, wrote |-> w, err |-> e] : w \in BOOLEAN, e \in errs }

\* what the attempts of the chain, the video attempt and the alternate pathway
\* may do
ChainOutcomes == DownloadOutcomes(ChainErrors)
AltOutcomes == DownloadOutcomes(AltErrors)

\* the settle delay being one second on every route
StartSettle_OneSecond(rq) ==
    [rq EXCEPT !.pc = "settle", !.settleAt = now + SETTLE_FLAT]

\* server.js:499-500 and 646-647: the settle delay is started
StartSettle(rq) ==
    [rq EXCEPT !.pc = "settle",
               !.settleAt = now + (IF IsNested(rq) THEN SETTLE_NESTED ELSE SETTLE_FLAT)]

\* the chain giving up one specifier early
AfterFormat_EarlyAlt(rq, o) ==
    IF o.ok THEN StartSettle(rq)
    ELSE LET rq1 == [rq EXCEPT !.lastError = <<o.err>>,
                               !.firstError = IF @ = <<>> THEN <<o.err>> ELSE @]
         IN  IF rq.fmt < Len(FormatOptions) - 1 THEN StartFormat(rq1, rq.fmt + 1)
             ELSE Log(rq1, "alt", "ytdl_core", "highestaudio")

\* server.js:461-476 and 632-642: attempt rq.fmt of the chain returned
AfterFormat(rq, o) ==
    IF o.ok THEN StartSettle(rq)
    ELSE LET rq1 == [rq EXCEPT !.lastError = <<o.err>>,
                               !.firstError = IF @ = <<>> THEN <<o.err>> ELSE @]
         IN  IF rq.fmt < Len(FormatOptions) THEN StartFormat(rq1, rq.fmt + 1)
             ELSE Log(rq1, "alt", "ytdl_core", "highestaudio")

\* the alternate pathway being tried a second time when it fails
AfterAlt_Again(rq, o) ==
    IF o.ok THEN StartSettle(rq)
    ELSE IF Cardinality({ i \in DOMAIN rq.log : rq.log[i].op = "ytdl_core" }) < 2
         THEN Log(rq, "alt", "ytdl_core", "highestaudio")
    ELSE Respond(rq, 500, FlatError(DownloadFailed(o.err)))

\* server.js:476-497 (flat) and 642-644 with 684-692 (nested):
\* downloadAudioWithYtdlCore returned
AfterAlt(rq, o) ==
    IF o.ok THEN StartSettle(rq)
    ELSE IF IsNested(rq)
         THEN Respond(rq, 500, NestedError(500, OrElse(o.err, M_INTERNAL)))
    ELSE IF IsAuthError(rq.lastError[1])
         THEN Respond(rq, 500, FlatError(AUTH_MESSAGE))
    ELSE Respond(rq, 500, FlatError(DownloadFailed(OrElse(o.err, rq.lastError[1]))))

\* the video attempt falling back to the alternate pathway
AfterVideo_Fallback(rq, o) ==
    IF o.ok THEN StartSettle(rq)
    ELSE Log(rq, "alt", "ytdl_core", "highestaudio")

\* server.js:755-777: the video attempt returned
AfterVideo(rq, o) ==
    IF o.ok THEN StartSettle(rq)
    ELSE IF IsAuthError(o.err) THEN Respond(rq, 500, FlatError(AUTH_MESSAGE))
    ELSE Respond(rq, 500, FlatError(DownloadFailed(o.err)))

\* fs.existsSync(path.join(DOWNLOAD_DIR, filename))
Exists(fn) == fn \in DOMAIN files

\* server.js:670-683
NestedSuccess(rq, url) ==
    Respond(rq, 200,
        [ status |-> 200, success |-> TRUE, creator |-> CREATOR_NAME,
          result |-> [ quality |-> "320kbps",
                       duration |-> formatDurationTimestamp(rq.videoInfo[1].duration),
                       title |-> rq.videoInfo[1].title,
                       thumbnail |-> rq.videoInfo[1].thumbnail,
                       download_url |-> url ] ])

\* server.js:531-540 and 808-817
FlatSuccess(rq, fn) ==
    Respond(rq, 200,
        [ status |-> TRUE, creator |-> API_NAME,
          title |-> rq.videoInfo[1].title,
          dl |-> LocalUrl(fn),
          thumb |-> rq.videoInfo[1].thumbnail,
          duration |-> rq.videoInfo[1].duration,
          size |-> files[fn].size,
          format |-> fn.ext ])

\* server.js:502-509, 649-656, 779-786: the output file is absent after the delay
MissingFile(rq) ==
    IF IsNested(rq)
    THEN Respond(rq, 500, NestedError(500,
             M_NOT_FOUND_AFTER \o
             (IF rq.lastError # <<>> /\ rq.lastError[1] # <<>>
              THEN <<": ">> \o rq.lastError[1] ELSE <<>>)))
    ELSE Respond(rq, 500, FlatError(M_NOT_FOUND_AFTER))

\* the nested route going on to its success response after MissingFile
AfterSettle_NoReturn(rq) ==
    LET fn == rq.filename[1]
    IN  IF IsNested(rq)
        THEN NestedSuccess(IF Exists(fn) THEN rq ELSE MissingFile(rq), LocalUrl(fn))
        ELSE IF ~Exists(fn) THEN MissingFile(rq)
        ELSE FlatSuccess(rq, fn)

\* server.js:502-540, 649-683, 779-817: the response after the settle delay
AfterSettle(rq) ==
    LET fn == rq.filename[1]
    IN  IF ~Exists(fn) THEN MissingFile(rq)
        ELSE IF IsNested(rq) THEN NestedSuccess(rq, LocalUrl(fn))
        ELSE FlatSuccess(rq, fn)

----------------------------------------------------------------------------
(* requestCobaltDownload *)

NoData == [isNull |-> TRUE, url |-> <<>>, download_url |-> <<>>,
           result_url |-> <<>>, result_download_url |-> <<>>,
           error |-> <<>>, message |-> <<>>]

\* the JSON bodies the tunnel service may answer with (isNull: unparseable)
CobaltData ==
    { NoData,
      [NoData EXCEPT !.isNull = FALSE],
      [NoData EXCEPT !.isNull = FALSE, !.url = <<TunnelUrl>>],
      [NoData EXCEPT !.isNull = FALSE, !.download_url = <<TunnelUrl>>],
      [NoData EXCEPT !.isNull = FALSE, !.result_url = <<TunnelUrl>>],
      [NoData EXCEPT !.isNull = FALSE, !.result_download_url = <<TunnelUrl>>],
      [NoData EXCEPT !.isNull = FALSE, !.error = E_cobalt] }

\* what the POST may do: fail, or answer with a status and a body
CobaltOutcomes ==
    { [throw |-> TRUE, ok |-> FALSE, data |-> NoData] } \cup
    { [throw |-> FALSE, ok |-> b, data |-> d] : b \in BOOLEAN, d \in CobaltData }

\* server.js:96-116: what requestCobaltDownload makes of the answer
requestCobaltDownload(o) ==
    IF o.throw THEN [throw |-> TRUE, msg |-> E_fetch, downloadUrl |-> <<>>]
    ELSE IF ~o.ok
    THEN [throw |-> TRUE,
          msg |-> OrElse(OrElse(o.data.error, o.data.message), <<"Cobalt error (status)">>),
          downloadUrl |-> <<>>]
    ELSE [throw |-> FALSE, msg |-> <<>>,
          downloadUrl |-> OrElse(o.data.url, OrElse(o.data.download_url,
                          OrElse(o.data.result_url, o.data.result_download_url)))]

\* an error of the tunnel request ending the request
AfterCobalt_HardFail(rq, o) ==
    LET c == requestCobaltDownload(o)
    IN  IF c.throw THEN Respond(rq, 500, NestedError(500, c.msg))
        ELSE IF c.downloadUrl # <<>> THEN NestedSuccess(rq, c.downloadUrl[1])
        ELSE StageAudio(rq)

\* the nested route downloading to the server whatever the tunnel returns
AfterCobalt_AlwaysLocal(rq, o) == StageAudio(rq)

\* server.js:583-592: the tunnel request returned
AfterCobalt(rq, o) ==
    LET c == requestCobaltDownload(o)
    IN  IF ~c.throw /\ c.downloadUrl # <<>> THEN NestedSuccess(rq, c.downloadUrl[1])
        ELSE StageAudio(rq)

----------------------------------------------------------------------------
(* /api/search *)

\* Array.prototype.slice(0, n)
Slice(s, n) == [i \in 1..(IF Len(s) < n THEN Len(s) ELSE n) |-> s[i]]

\* server.js:858-872
SearchResult(video) ==
    [ videoId |-> video.videoId, title |-> video.title, url |-> video.url,
      thumbnail |-> video.thumbnail,
      duration |-> IF video.duration # <<>>
                   THEN << [seconds |-> video.duration[1].seconds,
                            timestamp |-> video.duration[1].timestamp] >>
                   ELSE <<>>,
      views |-> video.views,
      author |-> IF video.author # <<>>
                 THEN << [name |-> video.author[1].name, url |-> video.author[1].url] >>
                 ELSE <<>> ]

\* what the index may do for a query: throw, or return its first n candidates
SearchOutcomes ==
    { [throw |-> TRUE, err |-> e, videos |-> <<>>] : e \in {E_yts, E_empty} } \cup
    { [throw |-> FALSE, err |-> <<>>, videos |-> Videos(n)] : n \in 0..MaxResults }

\* server.js:845-888: yts(q) returned
AfterSearch(rq, o) ==
    IF o.throw THEN Respond(rq, 500, FlatError(OrElse(o.err, M_SEARCH_FAILED)))
    ELSE IF ~HasVideos(o.videos)
    THEN Respond(rq, 200, [ status |-> TRUE, creator |-> API_NAME, query |-> rq.q,
                            results |-> <<>>, message |-> M_NO_VIDEOS ])
    ELSE LET videos == [i \in DOMAIN Slice(o.videos, SEARCH_LIMIT) |->
                            SearchResult(Slice(o.videos, SEARCH_LIMIT)[i])]
         IN  Respond(rq, 200, [ status |-> TRUE, creator |-> API_NAME, query |-> rq.q,
                                results |-> videos, count |-> Len(videos) ])

----------------------------------------------------------------------------
(* The routes: the synchronous code from the arrival of a request to its  *)
(* first await                                                            *)

\* requireApiKey accepting any key that is present
requireApiKey_AnyKey(apikey) ==
    IF API_KEY = "" THEN TRUE ELSE apikey # ""

\* server.js:49-65
requireApiKey(apikey) ==
    IF API_KEY = "" THEN TRUE
    ELSE ~(apikey = "" \/ apikey # API_KEY)

\* the flat routes without their host check
FlatStart_NoHostCheck(rq) ==
    IF rq.url = <<>> THEN Respond(rq, 400, FlatError(M_URL_REQUIRED))
    ELSE GetVideoInfo(rq)

\* server.js:387-409 and 700-722
FlatStart(rq) ==
    IF rq.url = <<>> THEN Respond(rq, 400, FlatError(M_URL_REQUIRED))
    ELSE IF ~HostRecognized(rq.url) THEN Respond(rq, 400, FlatError(M_INVALID_URL))
    ELSE GetVideoInfo(rq)

\* the nested route looking at the url parameter before the key
NestedStart_UrlFirst(rq) ==
    IF rq.url = <<>> THEN Respond(rq, 400, NestedError(400, M_URL_REQUIRED))
    ELSE IF ~HostRecognized(rq.url) THEN Respond(rq, 400, NestedError(400, M_INVALID_URL))
    ELSE IF ~requireApiKey(rq.apikey) THEN Respond(rq, 401, NestedError(401, M_INVALID_KEY))
    ELSE GetVideoInfo(rq)

\* server.js:558-580
NestedStart(rq) ==
    IF ~requireApiKey(rq.apikey) THEN Respond(rq, 401, NestedError(401, M_INVALID_KEY))
    ELSE IF rq.url = <<>> THEN Respond(rq, 400, NestedError(400, M_URL_REQUIRED))
    ELSE IF ~HostRecognized(rq.url) THEN Respond(rq, 400, NestedError(400, M_INVALID_URL))
    ELSE GetVideoInfo(rq)

\* the search route without its check of q
SearchStart_NoCheck(rq) == Log(rq, "search", "yts", "q")

\* server.js:834-845
SearchStart(rq) ==
    IF rq.q = <<>> THEN Respond(rq, 400, FlatError(M_Q_REQUIRED))
    ELSE Log(rq, "search", "yts", "q")

Set(r, rq) == req' = [req EXCEPT ![r] = rq]

At(r, pc) == req[r].pc = pc

\* GET /api/downloader/ytmp3?url=
Ytmp3(r, urls) ==
    /\ At(r, "idle")
    /\ \E url \in urls : Set(r, FlatStart([Idle EXCEPT !.route = "flat_mp3", !.url = url]))
    /\ UNCHANGED <<API_KEY, COBALT_URL, isVercel, cookies, now, files, timers, nextSweep,
                   dl, cookieWrites>>

\* GET /api/downloader/ytmp4?url=
Ytmp4(r, urls) ==
    /\ At(r, "idle")
    /\ \E url \in urls : Set(r, FlatStart([Idle EXCEPT !.route = "flat_mp4", !.url = url]))
    /\ UNCHANGED <<API_KEY, COBALT_URL, isVercel, cookies, now, files, timers, nextSweep,
                   dl, cookieWrites>>

\* GET /api/download/ytmp3?apikey=&url=
NestedYtmp3(r, urls, apikeys) ==
    /\ At(r, "idle")
    /\ \E url \in urls, apikey \in apikeys :
          Set(r, NestedStart([Idle EXCEPT !.route = "nested_mp3", !.url = url,
                                          !.apikey = apikey]))
    /\ UNCHANGED <<API_KEY, COBALT_URL, isVercel, cookies, now, files, timers, nextSweep,
                   dl, cookieWrites>>

\* GET /api/search?q=
Search(r, queries) ==
    /\ At(r, "idle")
    /\ \E q \in queries : Set(r, SearchStart([Idle EXCEPT !.route = "search", !.q = q]))
    /\ UNCHANGED <<API_KEY, COBALT_URL, isVercel, cookies, now, files, timers, nextSweep,
                   dl, cookieWrites>>

----------------------------------------------------------------------------
(* The returns of the awaited calls *)

YtsIdReturn(r, outcomes) ==
    /\ At(r, "yts_id")
    /\ \E o \in outcomes : Set(r, AfterYtsId(req[r], o))
    /\ UNCHANGED <<API_KEY, COBALT_URL, isVercel, cookies, now, files, timers, nextSweep,
                   dl, cookieWrites>>

YtsUrlReturn(r, outcomes) ==
    /\ At(r, "yts_url")
    /\ \E o \in outcomes : Set(r, AfterYtsUrl(req[r], o))
    /\ UNCHANGED <<API_KEY, COBALT_URL, isVercel, cookies, now, files, timers, nextSweep,
                   dl, cookieWrites>>

YtdlpInfoReturn(r, outcomes) ==
    /\ At(r, "ytdlp_info")
    /\ \E o \in outcomes : Set(r, AfterYtdlpInfo(req[r], o))
    /\ UNCHANGED <<API_KEY, COBALT_URL, isVercel, cookies, now, files, timers, nextSweep,
                   dl, cookieWrites>>

YtsId2Return(r, outcomes) ==
    /\ At(r, "yts_id2")
    /\ \E o \in outcomes : Set(r, AfterYtsId2(req[r], o))
    /\ UNCHANGED <<API_KEY, COBALT_URL, isVercel, cookies, now, files, timers, nextSweep,
                   dl, cookieWrites>>

YtsUrl2Return(r, outcomes) ==
    /\ At(r, "yts_url2")
    /\ \E o \in outcomes : Set(r, AfterYtsUrl2(req[r], o))
    /\ UNCHANGED <<API_KEY, COBALT_URL, isVercel, cookies, now, files, timers, nextSweep,
                   dl, cookieWrites>>

CobaltReturn(r, outcomes) ==
    /\ At(r, "cobalt")
    /\ \E o \in outcomes : Set(r, AfterCobalt(req[r], o))
    /\ UNCHANGED <<API_KEY, COBALT_URL, isVercel, cookies, now, files, timers, nextSweep,
                   dl, cookieWrites>>

SearchReturn(r, outcomes) ==
    /\ At(r, "search")
    /\ \E o \in outcomes : Set(r, AfterSearch(req[r], o))
    /\ UNCHANGED <<API_KEY, COBALT_URL, isVercel, cookies, now, files, timers, nextSweep,
                   dl, cookieWrites>>

\* the download directory after the tool wrote (or rewrote) fn: its mtime is the
\* instant of the write
Written(fn) ==
    (fn :> [mtime |-> now, size |-> 1024,
            locked |-> IF fn \in DOMAIN files THEN files[fn].locked ELSE FALSE]) @@ files

\* the download directory after fs.unlinkSync of the files in gone
Unlinked(gone) == [f \in DOMAIN files \ gone |-> files[f]]

FormatReturn(r, outcomes) ==
    /\ At(r, "format")
    /\ \E o \in outcomes :
          /\ Set(r, AfterFormat(req[r], o))
          /\ files' = IF o.wrote THEN Written(req[r].filename[1]) ELSE files
    /\ UNCHANGED <<API_KEY, COBALT_URL, isVercel, cookies, now, timers, nextSweep,
                   dl, cookieWrites>>

AltReturn(r, outcomes) ==
    /\ At(r, "alt")
    /\ \E o \in outcomes :
          /\ Set(r, AfterAlt(req[r], o))
          /\ files' = IF o.wrote THEN Written(req[r].filename[1]) ELSE files
    /\ UNCHANGED <<API_KEY, COBALT_URL, isVercel, cookies, now, timers, nextSweep,
                   dl, cookieWrites>>

VideoReturn(r, outcomes) ==
    /\ At(r, "video")
    /\ \E o \in outcomes :
          /\ Set(r, AfterVideo(req[r], o))
          /\ files' = IF o.wrote THEN Written(req[r].filename[1]) ELSE files
    /\ UNCHANGED <<API_KEY, COBALT_URL, isVercel, cookies, now, timers, nextSweep,
                   dl, cookieWrites>>

\* server.js:519-528, 659-665, 796-805: setTimeout(..., FILE_CLEANUP_AGE)
Scheduled(r, fn) == timers \cup {[path |-> fn, due |-> now + FILE_CLEANUP_AGE, owner |-> r]}

\* the success response being sent without a timer for the file
SettleDone_NoTimer(r) ==
    /\ At(r, "settle")
    /\ now = req[r].settleAt
    /\ Set(r, AfterSettle(req[r]))
    /\ UNCHANGED <<API_KEY, COBALT_URL, isVercel, cookies, now, files, timers, nextSweep,
                   dl, cookieWrites>>

\* the settle delay of server.js:500, 647, 777 has elapsed
SettleDone(r) ==
    /\ At(r, "settle")
    /\ now = req[r].settleAt
    /\ Set(r, AfterSettle(req[r]))
    /\ timers' = IF Exists(req[r].filename[1]) THEN Scheduled(r, req[r].filename[1])
                 ELSE timers
    /\ UNCHANGED <<API_KEY, COBALT_URL, isVercel, cookies, now, files, nextSweep,
                   dl, cookieWrites>>

----------------------------------------------------------------------------
(* The download directory: timers, the sweep, GET /download/:filename      *)

\* the times at which a pending timeout or interval is due
Deadlines ==
    { tm.due : tm \in timers }
    \cup (IF isVercel THEN {} ELSE {nextSweep})
    \cup { req[r].settleAt : r \in { x \in DOMAIN req : req[x].pc = "settle" } }

\* Time passes, to an instant of the grid or to the next deadline, and never
\* beyond a deadline: a timeout runs when it is due.
Tick(grid, horizon) ==
    /\ \E t \in grid \cup Deadlines :
          /\ t > now
          /\ t <= horizon
          /\ \A d \in Deadlines : t <= d
          /\ now' = t
    /\ UNCHANGED <<API_KEY, COBALT_URL, isVercel, cookies, files, timers, nextSweep,
                   req, dl, cookieWrites>>

\* the files of fs on which fs.unlinkSync succeeds; on the others it throws
Unlinkable(fs) == { f \in fs \cap DOMAIN files : ~files[f].locked }

\* server.js:519-528, 659-665, 796-805: a per-file timer fires
TimerFire ==
    /\ \E tm \in timers :
          /\ tm.due = now
          /\ timers' = timers \ {tm}
          /\ files' = IF Exists(tm.path) THEN Unlinked(Unlinkable({tm.path})) ELSE files
    /\ UNCHANGED <<API_KEY, COBALT_URL, isVercel, cookies, now, nextSweep,
                   req, dl, cookieWrites>>

\* a scan that finds no file old enough
Expired_Never == {}

\* a scan that also takes the files that are exactly FILE_CLEANUP_AGE old
Expired_Inclusive == { f \in DOMAIN files : now - files[f].mtime >= FILE_CLEANUP_AGE }

\* server.js:217: the files a sweep deletes
Expired == { f \in DOMAIN files : now - files[f].mtime > FILE_CLEANUP_AGE }

\* a scan that ends at the first file it fails to delete
Sweep_AbortOnError ==
    /\ ~isVercel
    /\ nextSweep = now
    /\ files' = IF Unlinkable(Expired) = Expired THEN Unlinked(Expired) ELSE files
    /\ nextSweep' = nextSweep + SWEEP_INTERVAL
    /\ UNCHANGED <<API_KEY, COBALT_URL, isVercel, cookies, now, timers,
                   req, dl, cookieWrites>>

\* server.js:208-233: the interval fires and cleanupOldFiles runs; a file
\* whose unlinkSync throws is logged and the scan goes on
Sweep ==
    /\ ~isVercel
    /\ nextSweep = now
    /\ files' = Unlinked(Unlinkable(Expired))
    /\ nextSweep' = nextSweep + SWEEP_INTERVAL
    /\ UNCHANGED <<API_KEY, COBALT_URL, isVercel, cookies, now, timers,
                   req, dl, cookieWrites>>

\* The :filename parameter, after the router has decoded it: a name, or a
\* name behind one "../" (sent as "..%2F").  A name has the parts kind, ts and
\* ext; of a name that is not of the staged pattern <kind>_<ts>.<ext>, the
\* parts kind and ext are <kind>.<ext> and ts is unused.
Plain(name) == [up |-> FALSE, name |-> name]
Parent(name) == [up |-> TRUE, name |-> name]

\* cookies.txt and server.js lie in the directory that holds the download
\* directory (server.js:28 and 40); on Vercel that directory is /tmp, where
\* only cookies.txt lies
COOKIES_TXT == [kind |-> "cookies", ts |-> 0, ext |-> "txt"]
SERVER_JS == [kind |-> "server", ts |-> 0, ext |-> "js"]
OutsidePaths == {Parent(COOKIES_TXT), Parent(SERVER_JS)}
NoPaths == {}

\* fs.existsSync(path.join(DOWNLOAD_DIR, filename))
PathExists(path) ==
    IF ~path.up THEN Exists(path.name)
    ELSE IF path.name = COOKIES_TXT THEN cookies # "absent"
    ELSE path.name = SERVER_JS /\ ~isVercel

\* what reading the file may do: succeed, fail before the first chunk is
\* written (the headers are not sent yet), or fail after it
StreamOutcomes == <<"ok", "open_error", "read_error">>
OkStreams == <<"ok">>

M_STREAM_ERROR == <<"Error streaming file">>

\* server.js:131-171: the answer of GET /download/:filename
DownloadEndpoint(path, stream) ==
    LET fn == path.name
        type == IF fn.ext = "mp3" THEN "audio/mpeg" ELSE "video/mp4"
    IN  IF ~PathExists(path)
        THEN [ filename |-> fn, up |-> path.up, at |-> now, http |-> 404,
               contentType |-> "application/json", disposition |-> "",
               body |-> <<FlatError(M_FILE_NOT_FOUND)>>, streamed |-> "none" ]
        ELSE IF stream = "open_error"
        THEN [ filename |-> fn, up |-> path.up, at |-> now, http |-> 500,
               contentType |-> type, disposition |-> "attachment",
               body |-> <<FlatError(M_STREAM_ERROR)>>, streamed |-> "none" ]
        ELSE [ filename |-> fn, up |-> path.up, at |-> now, http |-> 200,
               contentType |-> type, disposition |-> "attachment", body |-> <<>>,
               streamed |-> IF stream = "ok" THEN "all" ELSE "part" ]

\* the filenames a client may ask for: those staged by a request, those present
Known ==
    DOMAIN files \cup
    { req[r].filename[1] : r \in { x \in DOMAIN req : req[x].filename # <<>> } }

\* GET /download/:filename, for a known name or one of the given paths
GetDownload(paths, streams) ==
    /\ \E path \in { Plain(fn) : fn \in Known } \cup paths :
          \E i \in DOMAIN streams : dl' = <<DownloadEndpoint(path, streams[i])>>
    /\ UNCHANGED <<API_KEY, COBALT_URL, isVercel, cookies, now, files, timers, nextSweep,
                   req, cookieWrites>>

\* server.js:122-125: the answer of GET /downloads/<name>, which
\* express.static gives where it is mounted; elsewhere, and for a name that is
\* not there, the request falls through to the router's 404.  It changes no
\* state.
StaticDownloads(fn) ==
    IF ~isVercel /\ Exists(fn)
    THEN [ filename |-> fn, at |-> now, http |-> 200,
           contentType |-> (IF fn.ext = "mp3" THEN "audio/mpeg" ELSE "video/mp4"),
           streamed |-> "all" ]
    ELSE [ filename |-> fn, at |-> now, http |-> 404,
           contentType |-> "text/html", streamed |-> "none" ]

\* another process removes a file of the download directory
ExternalDelete ==
    /\ \E fn \in DOMAIN files : files' = Unlinked({fn})
    /\ UNCHANGED <<API_KEY, COBALT_URL, isVercel, cookies, now, timers, nextSweep,
                   req, dl, cookieWrites>>

\* a file of the download directory becomes one that fs.unlinkSync fails on
\* (it is held open, or its permissions change)
ExternalLock ==
    /\ \E fn \in DOMAIN files :
          /\ ~files[fn].locked
          /\ files' = [files EXCEPT ![fn].locked = TRUE]
    /\ UNCHANGED <<API_KEY, COBALT_URL, isVercel, cookies, now, timers, nextSweep,
                   req, dl, cookieWrites>>

\* the operator replaces, empties or removes cookies.txt
CookieChange ==
    /\ cookieWrites < MaxCookieChanges
    /\ \E c \in {"absent", "empty", "nonempty"} : c # cookies /\ cookies' = c
    /\ cookieWrites' = cookieWrites + 1
    /\ UNCHANGED <<API_KEY, COBALT_URL, isVercel, now, files, timers, nextSweep, req, dl>>

----------------------------------------------------------------------------
(* Specifications *)

NoFiles == [f \in {} |-> [mtime |-> 0, size |-> 0, locked |-> FALSE]]

\* The state after the module is loaded (server.js:24-40, 173-183, 230-233),
\* for the configurations and cookie files drawn from the given sets.
InitWith(reqs, keys, cobalts, cookieFiles) ==
    /\ API_KEY \in keys
    /\ COBALT_URL \in cobalts
    /\ isVercel \in BOOLEAN
    /\ cookies \in cookieFiles
    /\ now = 0
    /\ files = NoFiles
    /\ timers = {}
    /\ nextSweep = SWEEP_INTERVAL
    /\ req = [r \in reqs |-> Idle]
    /\ dl = <<>>
    /\ cookieWrites = 0

\* One request, of any route and with any input, against every behaviour of
\* the external tools.  Time passes from deadline to deadline, until the
\* request's deletion timer has fired.
Reqs == {1}
NoGrid == {}
Horizon == FILE_CLEANUP_AGE + SETTLE_FLAT

Init == InitWith(Reqs, {"", "secret"}, {"", "https://cobalt.example"},
                 {"absent", "empty", "nonempty"})

Next ==
    \/ \E r \in Reqs :
          \/ Ytmp3(r, Urls)
          \/ Ytmp4(r, Urls)
          \/ NestedYtmp3(r, Urls, ApiKeys)
          \/ Search(r, Queries)
          \/ YtsIdReturn(r, LookupOutcomes)
          \/ YtsUrlReturn(r, LookupOutcomes)
          \/ YtdlpInfoReturn(r, InfoOutcomes)
          \/ YtsId2Return(r, LookupOutcomes)
          \/ YtsUrl2Return(r, LookupOutcomes)
          \/ CobaltReturn(r, CobaltOutcomes)
          \/ FormatReturn(r, ChainOutcomes)
          \/ AltReturn(r, AltOutcomes)
          \/ VideoReturn(r, ChainOutcomes)
          \/ SettleDone(r)
          \/ SearchReturn(r, SearchOutcomes)
    \/ Tick(NoGrid, Horizon)
    \/ TimerFire

Spec == Init /\ [][Next]_vars

\* The download directory over time: flat-shape requests for a resolvable
\* locator, the per-file timers, the periodic sweep and GET /download, with
\* the clock also stopping at the instants of StoreGrid.
StoreReqs == {1}
StoreGrid == {89500}
StoreHorizon == SWEEP_INTERVAL + FILE_CLEANUP_AGE + SETTLE_FLAT
StoreUrls == {U_short}
StoreLookupOutcomes == {[throw |-> FALSE, videos |-> <<Cand(1)>>]}
StoreChainOutcomes == DownloadOutcomes({E_other})
StoreAltOutcomes == DownloadOutcomes({E_empty})

StoreKeys == {""}
StoreCookies == {"absent"}
ServeCookies == {"absent", "nonempty"}

InitStore == InitWith(StoreReqs, StoreKeys, StoreKeys, StoreCookies)

NextStore ==
    \/ \E r \in StoreReqs :
          \/ Ytmp3(r, StoreUrls)
          \/ Ytmp4(r, StoreUrls)
          \/ YtsIdReturn(r, StoreLookupOutcomes)
          \/ FormatReturn(r, StoreChainOutcomes)
          \/ AltReturn(r, StoreAltOutcomes)
          \/ VideoReturn(r, StoreChainOutcomes)
          \/ SettleDone(r)
    \/ Tick(StoreGrid, StoreHorizon)
    \/ TimerFire
    \/ Sweep
    \/ GetDownload(NoPaths, OkStreams)

SpecStore == InitStore /\ [][NextStore]_vars

\* The same run with a cookie file present or not, GET /download also being
\* asked for the paths of OutsidePaths, and every outcome of reading the file.
InitServe == InitWith(StoreReqs, StoreKeys, StoreKeys, ServeCookies)

NextServe ==
    \/ \E r \in StoreReqs :
          \/ Ytmp3(r, StoreUrls)
          \/ Ytmp4(r, StoreUrls)
          \/ YtsIdReturn(r, StoreLookupOutcomes)
          \/ FormatReturn(r, StoreChainOutcomes)
          \/ AltReturn(r, StoreAltOutcomes)
          \/ VideoReturn(r, StoreChainOutcomes)
          \/ SettleDone(r)
    \/ Tick(StoreGrid, StoreHorizon)
    \/ TimerFire
    \/ Sweep
    \/ GetDownload(OutsidePaths, StreamOutcomes)

SpecServe == InitServe /\ [][NextServe]_vars

\* The download directory in the long run: a request that arrives, and whose
\* tools answer, within the first period of the sweep; the clock, the timers
\* and the sweep go on until the second sweep, and none of them is postponed
\* for ever.
SweepHorizon == 2 * SWEEP_INTERVAL

NextSweeping ==
    \/ /\ now < SWEEP_INTERVAL
       /\ \E r \in StoreReqs :
             \/ Ytmp3(r, StoreUrls)
             \/ Ytmp4(r, StoreUrls)
             \/ YtsIdReturn(r, StoreLookupOutcomes)
             \/ FormatReturn(r, StoreChainOutcomes)
             \/ AltReturn(r, StoreAltOutcomes)
             \/ VideoReturn(r, StoreChainOutcomes)
    \/ \E r \in StoreReqs : SettleDone(r)
    \/ Tick(StoreGrid, SweepHorizon)
    \/ TimerFire
    \/ Sweep

SpecSweeping ==
    /\ InitStore
    /\ [][NextSweeping]_vars
    /\ WF_vars(\E r \in StoreReqs : SettleDone(r))
    /\ WF_vars(Tick(StoreGrid, SweepHorizon))
    /\ WF_vars(TimerFire)
    /\ WF_vars(Sweep)

\* The download directory under two concurrent audio requests, with the
\* per-file timers and the periodic sweep.
DirReqs == {1, 2}
DirGrid == {90000}
DirChainOutcomes ==
    { [ok |-> TRUE, wrote |-> TRUE, err |-> <<>>],
      [ok |-> FALSE, wrote |-> TRUE, err |-> E_other] }
DirAltOutcomes == { [ok |-> FALSE, wrote |-> TRUE, err |-> E_empty] }

InitDir == InitWith(DirReqs, StoreKeys, StoreKeys, StoreCookies)

NextDir ==
    \/ \E r \in DirReqs :
          \/ Ytmp3(r, StoreUrls)
          \/ NestedYtmp3(r, StoreUrls, StoreKeys)
          \/ YtsIdReturn(r, StoreLookupOutcomes)
          \/ FormatReturn(r, DirChainOutcomes)
          \/ AltReturn(r, DirAltOutcomes)
          \/ SettleDone(r)
    \/ Tick(DirGrid, StoreHorizon)
    \/ TimerFire
    \/ Sweep

SpecDir == InitDir /\ [][NextDir]_vars

\* The download directory under two concurrent flat-shape audio requests, with
\* the per-file timers, the periodic sweep, and another process that deletes
\* files or makes them undeletable.
NextDirExt ==
    \/ \E r \in DirReqs :
          \/ Ytmp3(r, StoreUrls)
          \/ YtsIdReturn(r, StoreLookupOutcomes)
          \/ FormatReturn(r, DirChainOutcomes)
          \/ AltReturn(r, DirAltOutcomes)
          \/ SettleDone(r)
    \/ Tick(DirGrid, StoreHorizon)
    \/ TimerFire
    \/ Sweep
    \/ ExternalDelete
    \/ ExternalLock

SpecDirExt == InitDir /\ [][NextDirExt]_vars

\* The nested route's duration string: a request whose metadata comes from
\* the heavyweight tool, with a duration of DurationInputs, and whose download
\* URL comes from the tunnel.
DurationInputs == (0..MaxSeconds) \cup {35999, 36000, 86399, 359999, 360000}
DurationCobalts == {"https://cobalt.example"}
DurationLookupOutcomes == {[throw |-> TRUE, videos |-> <<>>]}
DurationInfoOutcomes ==
    { [ok |-> TRUE,
       info |-> [title |-> <<"info title">>, duration |-> d,
                 thumbnail |-> <<"info thumb">>, description |-> <<>>],
       err |-> <<>>] : d \in DurationInputs }
DurationCobaltOutcomes ==
    { [throw |-> FALSE, ok |-> TRUE, data |-> [NoData EXCEPT !.isNull = FALSE,
                                                              !.url = <<TunnelUrl>>]] }

InitDuration == InitWith(Reqs, StoreKeys, DurationCobalts, StoreCookies)

NextDuration ==
    \E r \in Reqs :
        \/ NestedYtmp3(r, StoreUrls, StoreKeys)
        \/ YtsIdReturn(r, DurationLookupOutcomes)
        \/ YtdlpInfoReturn(r, DurationInfoOutcomes)
        \/ CobaltReturn(r, DurationCobaltOutcomes)

SpecDuration == InitDuration /\ [][NextDuration]_vars

\* The cookie file being replaced, emptied or removed while a request of any
\* download route runs, its metadata coming from the heavyweight tool.
CookieFiles == {"absent", "empty", "nonempty"}
CookieInfoOutcomes ==
    { [ok |-> TRUE,
       info |-> [title |-> <<"info title">>, duration |-> 3725,
                 thumbnail |-> <<"info thumb">>, description |-> <<>>],
       err |-> <<>>],
      [ok |-> FALSE, info |-> <<>>, err |-> E_other] }

InitCookies == InitWith(Reqs, StoreKeys, StoreKeys, CookieFiles)

NextCookies ==
    \/ \E r \in Reqs :
          \/ Ytmp3(r, StoreUrls)
          \/ Ytmp4(r, StoreUrls)
          \/ NestedYtmp3(r, StoreUrls, StoreKeys)
          \/ YtsIdReturn(r, DurationLookupOutcomes)
          \/ YtdlpInfoReturn(r, CookieInfoOutcomes)
          \/ FormatReturn(r, DirChainOutcomes)
          \/ AltReturn(r, DirAltOutcomes)
          \/ VideoReturn(r, DirChainOutcomes)
          \/ SettleDone(r)
    \/ Tick(NoGrid, Horizon)
    \/ TimerFire
    \/ CookieChange

SpecCookies == InitCookies /\ [][NextCookies]_vars

\* The nested-shape route behind a configured key, with and without a tunnel
\* endpoint, beside a flat-shape request, so that the download directory and
\* the timers are in use when the gate or the tunnel answers.
GateKeys == {"secret"}
GateApiKeys == {"secret", "wrong"}
GateUrls == {U_short, U_missing}
GateCobalts == {"", "https://cobalt.example"}
\* a second URL, for a body that carries one in more than one field
TunnelUrl2 == [base |-> "https://cobalt.example", path |-> "/tunnel?id=2", filename |-> <<>>]
GateCobaltOutcomes ==
    { [throw |-> TRUE, ok |-> FALSE, data |-> NoData],
      [throw |-> FALSE, ok |-> TRUE,
       data |-> [NoData EXCEPT !.isNull = FALSE, !.url = <<TunnelUrl>>,
                               !.download_url = <<TunnelUrl2>>]],
      [throw |-> FALSE, ok |-> TRUE,
       data |-> [NoData EXCEPT !.isNull = FALSE, !.result_url = <<TunnelUrl2>>,
                               !.result_download_url = <<TunnelUrl>>]] }
GateChainOutcomes == { [ok |-> TRUE, wrote |-> TRUE, err |-> <<>>] }

InitGate == InitWith(DirReqs, GateKeys, GateCobalts, StoreCookies)

NextGate ==
    \/ \E r \in DirReqs :
          \/ Ytmp3(r, GateUrls)
          \/ Ytmp4(r, GateUrls)
          \/ NestedYtmp3(r, GateUrls, GateApiKeys)
          \/ YtsIdReturn(r, StoreLookupOutcomes)
          \/ CobaltReturn(r, GateCobaltOutcomes)
          \/ FormatReturn(r, GateChainOutcomes)
          \/ VideoReturn(r, GateChainOutcomes)
          \/ SettleDone(r)
    \/ Tick(DirGrid, StoreHorizon)
    \/ TimerFire
    \/ Sweep

SpecGate == InitGate /\ [][NextGate]_vars

\* One download request against every behaviour of the external tools, each
\* call of which returns: a call that is awaited is eventually answered, the
\* clock reaches the next deadline and a timeout that is due runs.
InitReturning == InitWith(Reqs, StoreKeys, GateCobalts, StoreCookies)

NextReturning ==
    \/ \E r \in Reqs :
          \/ Ytmp3(r, StoreUrls)
          \/ Ytmp4(r, StoreUrls)
          \/ NestedYtmp3(r, StoreUrls, StoreKeys)
          \/ YtsIdReturn(r, LookupOutcomes)
          \/ YtsUrlReturn(r, LookupOutcomes)
          \/ YtdlpInfoReturn(r, InfoOutcomes)
          \/ YtsId2Return(r, LookupOutcomes)
          \/ YtsUrl2Return(r, LookupOutcomes)
          \/ CobaltReturn(r, CobaltOutcomes)
          \/ FormatReturn(r, ChainOutcomes)
          \/ AltReturn(r, AltOutcomes)
          \/ VideoReturn(r, ChainOutcomes)
          \/ SettleDone(r)
    \/ Tick(NoGrid, Horizon)
    \/ TimerFire

SpecReturning ==
    /\ InitReturning
    /\ [][NextReturning]_vars
    /\ \A r \in Reqs :
          /\ WF_vars(YtsIdReturn(r, LookupOutcomes))
          /\ WF_vars(YtsUrlReturn(r, LookupOutcomes))
          /\ WF_vars(YtdlpInfoReturn(r, InfoOutcomes))
          /\ WF_vars(YtsId2Return(r, LookupOutcomes))
          /\ WF_vars(YtsUrl2Return(r, LookupOutcomes))
          /\ WF_vars(CobaltReturn(r, CobaltOutcomes))
          /\ WF_vars(FormatReturn(r, ChainOutcomes))
          /\ WF_vars(AltReturn(r, AltOutcomes))
          /\ WF_vars(VideoReturn(r, ChainOutcomes))
          /\ WF_vars(SettleDone(r))
    /\ WF_vars(Tick(NoGrid, Horizon))
    /\ WF_vars(TimerFire)

----------------------------------------------------------------------------
(* Reading a request's record *)

\* the external calls of kind op that the request has issued
CallsOf(rq, op) == { i \in DOMAIN rq.log : rq.log[i].op = op }

IsDownloadRoute(rq) == rq.route \in {"flat_mp3", "flat_mp4", "nested_mp3"}
IsAudioRoute(rq) == rq.route \in {"flat_mp3", "nested_mp3"}

\* the body reports a failure: status:false, or success:false in the nested shape
SaysFailure(body) ==
    IF "success" \in DOMAIN body THEN body.success = FALSE ELSE body.status = FALSE

\* the request has been answered exactly once, with this HTTP status and a
\* body that reports a failure
Failed(rq, http) ==
    /\ rq.pc = "done"
    /\ Len(rq.resp) = 1
    /\ rq.resp[1].http = http
    /\ SaysFailure(rq.resp[1].body)

\* the nested route's key gate turns the request away
GateRejects(rq) ==
    rq.route = "nested_mp3" /\ API_KEY # "" /\ (rq.apikey = "" \/ rq.apikey # API_KEY)

----------------------------------------------------------------------------
(* C1 *)

\* C1 as stated: for every locator that matches no recognized host pattern,
\* every download endpoint and the search endpoint answers 400 with
\* status:false (or success:false), and no external tool is invoked.
C1_AsStated ==
    \A r \in Reqs :
        LET rq == req[r]
            locator == IF rq.route = "search" THEN rq.q ELSE rq.url
        IN  (rq.route # "none" /\ ~HostRecognized(locator))
                => (rq.log = <<>> /\ Failed(rq, 400))

\* C1, amended: for every locator that matches no recognized host pattern,
\* every download endpoint answers with a failure body and no external tool is
\* invoked; the status is 400, except that the nested route answers 401 when
\* its key gate rejects the request. The search endpoint makes no host check:
\* it answers 400 only for an empty q and looks every other q up in the index.
C1_UnrecognizedHostRejected ==
    \A r \in Reqs :
        LET rq == req[r]
        IN  /\ (IsDownloadRoute(rq) /\ ~HostRecognized(rq.url))
                => /\ rq.log = <<>>
                   /\ Failed(rq, IF GateRejects(rq) THEN 401 ELSE 400)
            /\ (rq.route = "search" /\ rq.q # <<>>)
                => (Len(rq.log) = 1 /\ rq.log[1].op = "yts")

\* a locator that carries an identifier but no recognized host is turned away
\* by a flat route
C1_Witness ==
    \E r \in Reqs :
        /\ req[r].route = "flat_mp3"
        /\ req[r].url = U_other
        /\ MatchVideoId(req[r].url) # <<>>
        /\ Failed(req[r], 400)
        /\ req[r].resp[1].body.error = M_INVALID_URL

----------------------------------------------------------------------------
(* C2 *)

\* C2 as stated: for every locator from which no identifier can be extracted
\* (recognized host or not), the resolver fails before any lookup is made and
\* the download route reports the failure with HTTP 400.  Stated for the
\* requests that reach the resolver.
C2_AsStated ==
    \A r \in Reqs :
        LET rq == req[r]
        IN  (/\ IsDownloadRoute(rq)
             /\ ~GateRejects(rq)
             /\ HostRecognized(rq.url)
             /\ MatchVideoId(rq.url) = <<>>)
                => (rq.log = <<>> /\ Failed(rq, 400))

----------------------------------------------------------------------------
(* C3 *)

\* the content type GET /download answers with for an artifact of this kind
ContentTypeOf(fn) == IF fn.kind = "audio" THEN "audio/mpeg" ELSE "video/mp4"

\* C3 as stated: after a flat-shape download request succeeded, a GET of the
\* returned dl URL before the TTL (FILE_CLEANUP_AGE, counted from the instant
\* of the response) has elapsed returns the artifact with the content type of
\* its kind, and a GET after the TTL has elapsed returns 404.
C3_AsStated ==
    \A r \in StoreReqs :
        LET rq == req[r]
        IN  (/\ rq.route \in {"flat_mp3", "flat_mp4"}
             /\ rq.pc = "done"
             /\ rq.resp[1].http = 200
             /\ dl # <<>>
             /\ <<dl[1].filename>> = rq.resp[1].body.dl.filename
             /\ dl[1].at >= rq.resp[1].at)
                => /\ dl[1].at < rq.resp[1].at + FILE_CLEANUP_AGE
                        => /\ dl[1].http = 200
                           /\ dl[1].contentType = ContentTypeOf(dl[1].filename)
                   /\ dl[1].at > rq.resp[1].at + FILE_CLEANUP_AGE
                        => dl[1].http = 404

----------------------------------------------------------------------------
(* C4 *)

\* C4: on the nested-shape audio route, when an API key is configured a
\* request whose apikey is absent or differs from it is answered 401 with
\* success:false (and nothing else is done); when no key is configured, or the
\* key matches, the request is never answered 401.
C4_ApiKeyGate ==
    \A r \in Reqs :
        LET rq == req[r]
        IN  rq.route = "nested_mp3" =>
                IF API_KEY # "" /\ (rq.apikey = "" \/ rq.apikey # API_KEY)
                THEN /\ Failed(rq, 401)
                     /\ rq.resp[1].body.success = FALSE
                     /\ rq.resp[1].body.status = 401
                     /\ rq.log = <<>>
                ELSE \A i \in DOMAIN rq.resp : rq.resp[i].http # 401

\* a wrong key is rejected under a configured key, with a valid locator
C4_Witness ==
    \E r \in Reqs :
        /\ req[r].route = "nested_mp3"
        /\ API_KEY = "secret"
        /\ req[r].apikey = "wrong"
        /\ req[r].url = U_short
        /\ Failed(req[r], 401)

----------------------------------------------------------------------------
(* C5 *)

\* the request's log ends with the six attempts of the chain, in the order of
\* FormatOptions, followed by the one call of the alternate pathway
ChainThenAlt(rq) ==
    /\ Len(rq.log) > Len(FormatOptions)
    /\ rq.log[Len(rq.log)].op = "ytdl_core"
    /\ \A k \in 1..Len(FormatOptions) :
          LET c == rq.log[Len(rq.log) - Len(FormatOptions) - 1 + k]
          IN  c.op = "ytdlp" /\ c.arg = FormatOptions[k]

\* the alternate pathway was attempted and failed: the request ended without
\* ever starting a settle delay
AltFailed(rq) ==
    /\ rq.pc = "done"
    /\ CallsOf(rq, "ytdl_core") # {}
    /\ rq.settleAt = 0

\* C5: on an audio route the alternate pathway is attempted at most once; it
\* is attempted exactly when the last specifier of the chain has failed (after
\* all six attempts, in order, and before any response), never after a
\* specifier succeeded, and its return issues no further attempt.
C5_AlternateOnceAfterChain ==
    \A r \in Reqs :
        LET rq == req[r]
        IN  IsAudioRoute(rq) =>
              /\ Cardinality(CallsOf(rq, "ytdl_core")) <= 1
              /\ CallsOf(rq, "ytdl_core") # {} =>
                    /\ ChainThenAlt(rq)
                    /\ Cardinality(CallsOf(rq, "ytdlp")) = Len(FormatOptions)
                    /\ rq.fmt = Len(FormatOptions)
                    /\ rq.lastError # <<>>
              /\ rq.pc = "alt" => rq.resp = <<>>
              /\ rq.pc = "format" =>
                    \A o \in ChainOutcomes :
                        LET n == AfterFormat(rq, o)
                        IN  /\ n.resp = <<>>
                            /\ (o.ok \/ rq.fmt < Len(FormatOptions)) =>
                                   CallsOf(n, "ytdl_core") = {}
                            /\ (~o.ok /\ rq.fmt = Len(FormatOptions)) =>
                                   (n.pc = "alt" /\ ChainThenAlt(n))
                            /\ o.ok => n.pc = "settle"
              /\ rq.pc = "alt" =>
                    \A o \in AltOutcomes : AfterAlt(rq, o).log = rq.log

\* every specifier was tried, the first and the last failed without an
\* authentication signal, and the alternate pathway was tried once and failed
C5_Witness ==
    \E r \in Reqs :
        /\ req[r].route = "flat_mp3"
        /\ AltFailed(req[r])
        /\ ChainThenAlt(req[r])
        /\ req[r].firstError = <<E_other>>
        /\ req[r].lastError = <<E_other>>
        /\ Failed(req[r], 500)

----------------------------------------------------------------------------
(* C6 *)

\* C6 as stated: for an audio request in which the first failing specifier's
\* error carries an authentication signal and the alternate pathway also
\* fails, the error surfaced to the client is the authentication message.
C6_AsStated ==
    \A r \in Reqs :
        LET rq == req[r]
        IN  (/\ IsAudioRoute(rq)
             /\ AltFailed(rq)
             /\ IsAuthError(rq.firstError[1]))
                => rq.resp[1].body.error = AUTH_MESSAGE

----------------------------------------------------------------------------
(* C7 *)

\* the metadata a lookup's first candidate gives, for the lists a lookup returns
FirstCandidateMeta == { MetaFromVideo(v[1]) : v \in LookupResults \ {<<>>} }

\* C7: when the identifier-keyed lookup returned zero candidates and the lookup
\* keyed by the raw locator returns at least one, the resolver returns the
\* metadata of that lookup's first candidate and the heavyweight tool is not
\* invoked.
C7_SecondLookupSuffices ==
    \A r \in Reqs :
        LET rq == req[r]
        IN  /\ rq.pc = "yts_url" =>
                /\ Len(rq.log) = 2
                /\ rq.log[1] = Call("yts", "videoId", FALSE)
                /\ rq.log[2] = Call("yts", "url", FALSE)
                /\ \A o \in LookupOutcomes :
                      (~o.throw /\ Len(o.videos) >= 1) =>
                          LET n == AfterYtsUrl(rq, o)
                          IN  /\ n.videoInfo = <<MetaFromVideo(o.videos[1])>>
                              /\ CallsOf(n, "ytdlp_info") = {}
                              /\ n.resp = <<>>
            /\ (/\ Len(rq.log) >= 3
                /\ rq.log[2] = Call("yts", "url", FALSE)
                /\ rq.log[3].op # "ytdlp_info")
                   => /\ rq.videoInfo # <<>>
                      /\ rq.videoInfo[1] \in FirstCandidateMeta
                      /\ CallsOf(rq, "ytdlp_info") = {}

\* the second lookup's first candidate (one without a title) gave the metadata,
\* and the request went on to its extraction without the heavyweight tool
C7_Witness ==
    \E r \in Reqs :
        /\ Len(req[r].log) >= 3
        /\ req[r].log[1] = Call("yts", "videoId", FALSE)
        /\ req[r].log[2] = Call("yts", "url", FALSE)
        /\ req[r].log[3].op = "ytdlp"
        /\ req[r].videoInfo = <<MetaFromVideo(Cand(2))>>
        /\ req[r].videoInfo[1].title = DEFAULT_TITLE

----------------------------------------------------------------------------
(* C8 *)

\* C8: a video request makes at most one extraction attempt, with the fixed
\* specifier, and exactly one once its metadata is resolved; a failure of that
\* attempt ends the request with a failure response, no further specifier and
\* no alternate pathway.
C8_VideoSingleAttempt ==
    \A r \in Reqs :
        LET rq == req[r]
        IN  rq.route = "flat_mp4" =>
              /\ CallsOf(rq, "ytdl_core") = {}
              /\ \A i \in CallsOf(rq, "ytdlp") :
                    i = Len(rq.log) /\ rq.log[i].arg = VIDEO_FORMAT
              /\ rq.videoInfo # <<>> => Cardinality(CallsOf(rq, "ytdlp")) = 1
              /\ rq.pc = "video" =>
                    \A o \in ChainOutcomes :
                        ~o.ok => LET n == AfterVideo(rq, o)
                                 IN  /\ n.log = rq.log
                                     /\ Failed(n, 500)

\* the single attempt failed and the request was answered with its error
C8_Witness ==
    \E r \in Reqs :
        /\ req[r].route = "flat_mp4"
        /\ Cardinality(CallsOf(req[r], "ytdlp")) = 1
        /\ req[r].settleAt = 0
        /\ Failed(req[r], 500)
        /\ req[r].resp[1].body.error = DownloadFailed(E_other)

----------------------------------------------------------------------------
(* C9 *)

\* C9: a search request whose q is missing or empty is answered 400 with
\* status:false and the error 'Query parameter "q" is required', and the
\* index is not queried.
C9_EmptyQueryRejected ==
    \A r \in Reqs :
        LET rq == req[r]
        IN  (rq.route = "search" /\ rq.q = <<>>)
               => /\ Failed(rq, 400)
                  /\ rq.resp[1].body = FlatError(M_Q_REQUIRED)
                  /\ rq.resp[1].body.status = FALSE
                  /\ rq.log = <<>>

\* a search without q has been turned away
C9_Witness ==
    \E r \in Reqs :
        /\ req[r].route = "search"
        /\ req[r].q = U_missing
        /\ req[r].pc = "done"
        /\ req[r].resp[1].http = 400

----------------------------------------------------------------------------
(* C10 *)

\* the results of a successful search over the first n candidates of the index
ExpectedResults(n) ==
    [i \in 1..(IF n < SEARCH_LIMIT THEN n ELSE SEARCH_LIMIT) |-> SearchResult(Cand(i))]

\* C10 as stated: every successful search response, for any number of
\* candidates including zero, carries status, creator, query, results and
\* count, results holding the first min(n, 20) candidates in index order and
\* count being the length of results.
C10_AsStated ==
    \A r \in Reqs :
        LET rq == req[r]
        IN  (rq.route = "search" /\ rq.pc = "done" /\ rq.resp[1].http = 200)
               => LET body == rq.resp[1].body
                  IN  /\ {"status", "creator", "query", "results", "count"}
                            \subseteq DOMAIN body
                      /\ body.count = Len(body.results)
                      /\ \E n \in 0..MaxResults : body.results = ExpectedResults(n)

----------------------------------------------------------------------------
(* C11 *)

\* C11 as stated: GET /download/:filename answers 404 with a flat-shape
\* error when the named file is absent from the download directory; when it
\* is present (and is read without error) it streams the file as an attachment
\* with content type audio/mpeg if the filename ends in .mp3 and video/mp4
\* otherwise.  A path behind "../" names no file of the download directory.
C11_AsStated ==
    /\ (dl # <<>> /\ dl[1].up) =>
          (dl[1].http = 404 /\ dl[1].body = <<FlatError(M_FILE_NOT_FOUND)>>)
    /\ \A fn \in Known :
          LET a == DownloadEndpoint(Plain(fn), "ok")
          IN  IF fn \in DOMAIN files
              THEN /\ a.http = 200
                   /\ a.disposition = "attachment"
                   /\ a.streamed = "all"
                   /\ a.contentType = IF fn.ext = "mp3" THEN "audio/mpeg" ELSE "video/mp4"
              ELSE /\ a.http = 404
                   /\ a.body = <<FlatError(M_FILE_NOT_FOUND)>>

----------------------------------------------------------------------------
(* C12 *)

\* the body is a JSON object with a non-empty error string
HasError(body) == "error" \in DOMAIN body /\ body.error # <<>>

\* C12 as stated: every failing request to any endpoint produces a JSON body
\* with a non-empty error string together with an HTTP error status; no
\* failure path ends without such a body.  A request to a route fails when its
\* answer is not a 200; a GET /download fails when it is not answered 200 with
\* the whole file.
C12_AsStated ==
    /\ \A r \in StoreReqs :
          /\ req[r].pc = "done" => Len(req[r].resp) = 1
          /\ \A i \in DOMAIN req[r].resp :
                req[r].resp[i].http # 200 =>
                    (req[r].resp[i].http >= 400 /\ HasError(req[r].resp[i].body))
    /\ (dl # <<>> /\ ~(dl[1].http = 200 /\ dl[1].streamed = "all")) =>
          /\ dl[1].http >= 400
          /\ dl[1].body # <<>>
          /\ HasError(dl[1].body[1])

----------------------------------------------------------------------------
(* C13 *)

\* C13 as stated: in every error response the body's status is false (flat
\* shape) or a number no greater than 499 (nested shape); for the nested shape
\* the body status equals the HTTP status, for the flat shape status is false
\* exactly when the HTTP status is an error status.
C13_AsStated ==
    \A r \in Reqs : \A i \in DOMAIN req[r].resp :
        LET h == req[r].resp[i].http
            b == req[r].resp[i].body
        IN  IF "success" \in DOMAIN b
            THEN b.status = h /\ (h >= 400 => b.status <= 499)
            ELSE (b.status = FALSE) <=> (h >= 400)

\* C13, amended: for the nested shape the body status is a number equal to
\* the HTTP status, which is 400, 401 or 500 in an error response (and 200
\* with success:true otherwise); for the flat shape status is a boolean that
\* is false exactly when the HTTP status is an error status.
C13_StatusMirrorsHttp ==
    \A r \in Reqs : \A i \in DOMAIN req[r].resp :
        LET h == req[r].resp[i].http
            b == req[r].resp[i].body
        IN  IF "success" \in DOMAIN b
            THEN /\ b.status = h
                 /\ h \in {200, 400, 401, 500}
                 /\ b.success <=> (h = 200)
                 /\ h >= 400 => HasError(b)
            ELSE /\ b.status \in BOOLEAN
                 /\ h \in {200, 400, 500}
                 /\ (b.status = FALSE) <=> (h >= 400)

\* a nested-shape error of the catch-all handler, and one of the key gate
C13_Witness ==
    \E r \in Reqs :
        /\ req[r].route = "nested_mp3"
        /\ Failed(req[r], 500)
        /\ req[r].resp[1].body.status = 500
        /\ CallsOf(req[r], "ytdl_core") # {}

----------------------------------------------------------------------------
(* C14 *)

\* the file that the request's success response advertises
Advertised(rq) == rq.resp[1].body.dl.filename[1]

\* C14 as stated (README.md): downloaded files are kept for 1 hour before
\* being cleaned up, the age limit being the FILE_CLEANUP_AGE setting (whose
\* default is 1 hour), and the cleanup scan runs every 30 minutes.
C14_AsStated ==
    /\ \A r \in StoreReqs :
          (req[r].pc = "done" /\ req[r].resp[1].http = 200) =>
              /\ now < req[r].resp[1].at + README_CLEANUP_AGE => Exists(Advertised(req[r]))
              /\ \A tm \in timers :
                    tm.owner = r => tm.due = req[r].resp[1].at + README_CLEANUP_AGE
    /\ ~isVercel => nextSweep % README_SWEEP_INTERVAL = 0

----------------------------------------------------------------------------
(* C15 *)

RECURSIVE FromDecimal(_)
\* the number that a string of decimal digits denotes
FromDecimal(str) ==
    IF str = <<>> THEN 0
    ELSE 10 * FromDecimal(SubSeq(str, 1, Len(str) - 1))
         + (CHOOSE d \in 0..9 : DigitChars[d + 1] = str[Len(str)])

RECURSIVE SplitColon(_)
\* the fields of a string between its colons
SplitColon(str) ==
    IF \A i \in DOMAIN str : str[i] # ":" THEN <<str>>
    ELSE LET i == CHOOSE k \in DOMAIN str :
                      str[k] = ":" /\ \A j \in 1..(k - 1) : str[j] # ":"
         IN  <<SubSeq(str, 1, i - 1)>> \o SplitColon(SubSeq(str, i + 1, Len(str)))

\* a non-empty string of digits, without a leading zero unless it is "0"
IsNumeral(str) ==
    /\ str # <<>>
    /\ \A i \in DOMAIN str : \E d \in 0..9 : DigitChars[d + 1] = str[i]
    /\ Len(str) > 1 => str[1] # "0"

\* two digits that denote a number of 0..59
IsSixtieth(str) ==
    /\ Len(str) = 2
    /\ \A i \in DOMAIN str : \E d \in 0..9 : DigitChars[d + 1] = str[i]
    /\ FromDecimal(str) \in 0..59

\* str is the H:MM:SS (s >= 3600) or M:SS (otherwise) form of s
IsTimestampOf(str, s) ==
    LET f == SplitColon(str)
    IN  IF s >= 3600
        THEN /\ Len(f) = 3
             /\ IsNumeral(f[1]) /\ IsSixtieth(f[2]) /\ IsSixtieth(f[3])
             /\ FromDecimal(f[1]) * 3600 + FromDecimal(f[2]) * 60 + FromDecimal(f[3]) = s
        ELSE /\ Len(f) = 2
             /\ IsNumeral(f[1]) /\ IsSixtieth(f[2])
             /\ FromDecimal(f[1]) * 60 + FromDecimal(f[2]) = s

\* C15: for every non-negative integer duration s, the nested-shape duration
\* string is H:MM:SS when s >= 3600 and M:SS otherwise, its minutes field
\* (when hours are shown) and seconds field are two digits in 00..59, and the
\* string read back as hours*3600 + minutes*60 + seconds gives s.
C15_DurationString ==
    \A r \in Reqs :
        (req[r].pc = "done" /\ req[r].resp[1].http = 200) =>
            IsTimestampOf(req[r].resp[1].body.result.duration,
                          req[r].videoInfo[1].duration)

\* 3725 s is answered as 1:02:05
C15_Witness ==
    \E r \in Reqs :
        /\ req[r].pc = "done"
        /\ req[r].resp[1].http = 200
        /\ req[r].videoInfo[1].duration = 3725
        /\ req[r].resp[1].body.result.duration = <<"1", ":", "0", "2", ":", "0", "5">>

----------------------------------------------------------------------------
(* C16 *)

IsChainCall(c) == c.op = "ytdlp"

\* the specifiers of the chain's attempts so far, in the order of the attempts
ChainArgs(rq) ==
    LET calls == SelectSeq(rq.log, IsChainCall)
    IN  [k \in DOMAIN calls |-> calls[k].arg]

\* what holds of the chain in every state: the attempts so far are the first
\* rq.fmt specifiers in their listed order, and whatever attempt rq.fmt
\* returns, a failure answers nothing and issues the next specifier (or, after
\* the last one, the alternate pathway), a success issues nothing more
ChainInOrder(rq) ==
    /\ ChainArgs(rq) = SubSeq(FormatOptions, 1, rq.fmt)
    /\ rq.pc = "format" =>
          /\ rq.fmt \in 1..Len(FormatOptions)
          /\ CallsOf(rq, "ytdl_core") = {}
          /\ IsChainCall(rq.log[Len(rq.log)])
          /\ rq.log[Len(rq.log)].arg = FormatOptions[rq.fmt]
          /\ \A o \in ChainOutcomes :
                LET n == AfterFormat(rq, o)
                IN  /\ n.resp = <<>>
                    /\ (~o.ok /\ rq.fmt < Len(FormatOptions)) =>
                          /\ n.pc = "format"
                          /\ n.fmt = rq.fmt + 1
                          /\ n.log = Append(rq.log,
                                            Call("ytdlp", FormatOptions[rq.fmt + 1], UseCookies))
                    /\ o.ok => (n.pc = "settle" /\ n.log = rq.log)

\* once an attempt has succeeded (the settle delay was started) no external
\* call is issued any more
QuietAfterSuccess ==
    \A r \in Reqs :
        (IsAudioRoute(req[r]) /\ req[r].settleAt # 0) => req'[r].log = req[r].log

\* C16: in the audio chain the format specifiers are tried strictly in their
\* listed order, one at a time; a failing attempt never aborts the request but
\* advances to the next specifier, and after the first successful attempt no
\* further specifier and no alternate pathway is attempted.
C16_ChainInOrder ==
    /\ [](\A r \in Reqs : IsAudioRoute(req[r]) => ChainInOrder(req[r]))
    /\ [][QuietAfterSuccess]_vars

\* two specifiers failed and the third succeeded: three attempts, no alternate
\* pathway, the settle delay running
C16_Witness ==
    \E r \in Reqs :
        /\ req[r].route = "nested_mp3"
        /\ req[r].pc = "settle"
        /\ req[r].fmt = 3
        /\ req[r].lastError # <<>>
        /\ ChainArgs(req[r]) = SubSeq(FormatOptions, 1, 3)
        /\ CallsOf(req[r], "ytdl_core") = {}

----------------------------------------------------------------------------
(* C17 *)

\* msg ends with the text tail
EndsWith(msg, tail) ==
    /\ Len(tail) <= Len(msg)
    /\ SubSeq(msg, Len(msg) - Len(tail) + 1, Len(msg)) = tail

\* C17 as stated: on every audio route that downloads locally (flat and
\* nested), when all specifiers and the alternate pathway fail, the surfaced
\* error is the authentication message if the chain's last error was an
\* authentication failure, and otherwise is the alternate pathway's error.
C17_AsStated ==
    \A r \in Reqs :
        LET rq == req[r]
        IN  (IsAudioRoute(rq) /\ rq.pc = "alt") =>
              \A o \in AltOutcomes :
                  ~o.ok =>
                      LET n == AfterAlt(rq, o)
                      IN  /\ n.pc = "done"
                          /\ Len(n.resp) = 1
                          /\ IF IsAuthError(rq.lastError[1])
                             THEN n.resp[1].body.error = AUTH_MESSAGE
                             ELSE EndsWith(n.resp[1].body.error, o.err)

----------------------------------------------------------------------------
(* C18 *)

\* the structured lookups issued after the heavyweight tool was invoked
RepeatedLookups(rq) ==
    { i \in CallsOf(rq, "yts") : \E j \in CallsOf(rq, "ytdlp_info") : j < i }

\* C18: when the heavyweight metadata tool fails with the 'requested format
\* not available' signal, the resolver repeats the structured lookup exactly
\* once more (by identifier, then by raw locator if the first yields nothing)
\* and returns metadata if either yields a candidate; when the tool fails with
\* any other signal the structured lookup is not repeated.
C18_RepeatOnFormatError ==
    \A r \in Reqs :
        LET rq == req[r]
            last == Len(rq.log)
        IN  /\ Cardinality(CallsOf(rq, "ytdlp_info")) <= 1
            /\ Cardinality({ i \in RepeatedLookups(rq) : rq.log[i].arg = "videoId" }) <= 1
            /\ Cardinality({ i \in RepeatedLookups(rq) : rq.log[i].arg = "url" }) <= 1
            /\ rq.pc = "ytdlp_info" =>
                  /\ RepeatedLookups(rq) = {}
                  /\ \A o \in InfoOutcomes :
                        ~o.ok =>
                            LET n == AfterYtdlpInfo(rq, o)
                            IN  IF IsFormatError(o.err)
                                THEN /\ n.pc = "yts_id2"
                                     /\ n.resp = <<>>
                                     /\ n.log = Append(rq.log, Call("yts", "videoId", FALSE))
                                ELSE /\ n.pc = "done"
                                     /\ n.log = rq.log
            /\ rq.pc = "yts_id2" =>
                  /\ RepeatedLookups(rq) = {last}
                  /\ rq.log[last - 1].op = "ytdlp_info"
                  /\ rq.log[last].arg = "videoId"
                  /\ IsFormatError(rq.infoError)
                  /\ \A o \in LookupOutcomes :
                        LET n == AfterYtsId2(rq, o)
                        IN  /\ (~o.throw /\ HasVideos(o.videos)) =>
                                  /\ n.videoInfo = <<MetaFromVideo(o.videos[1])>>
                                  /\ n.resp = <<>>
                                  /\ CallsOf(n, "yts") = CallsOf(rq, "yts")
                            /\ (~o.throw /\ ~HasVideos(o.videos)) =>
                                  /\ n.pc = "yts_url2"
                                  /\ n.log = Append(rq.log, Call("yts", "url", FALSE))
                            /\ o.throw => n.log = rq.log
            /\ rq.pc = "yts_url2" =>
                  /\ RepeatedLookups(rq) = {last - 1, last}
                  /\ rq.log[last - 2].op = "ytdlp_info"
                  /\ rq.log[last - 1].arg = "videoId"
                  /\ rq.log[last].arg = "url"
                  /\ IsFormatError(rq.infoError)
                  /\ \A o \in LookupOutcomes :
                        LET n == AfterYtsUrl2(rq, o)
                        IN  /\ (~o.throw /\ HasVideos(o.videos)) =>
                                  /\ n.videoInfo = <<MetaFromVideo(o.videos[1])>>
                                  /\ n.resp = <<>>
                            /\ CallsOf(n, "yts") = CallsOf(rq, "yts")
                            /\ CallsOf(n, "ytdlp_info") = CallsOf(rq, "ytdlp_info")

\* the tool failed, the lookup was repeated by identifier and then by raw
\* locator, and the latter gave the metadata
C18_Witness ==
    \E r \in Reqs :
        \E k \in DOMAIN req[r].log :
            /\ k + 2 \in DOMAIN req[r].log
            /\ req[r].log[k].op = "ytdlp_info"
            /\ req[r].log[k + 1] = Call("yts", "videoId", FALSE)
            /\ req[r].log[k + 2] = Call("yts", "url", FALSE)
            /\ req[r].videoInfo # <<>>
            /\ req[r].videoInfo[1] \in FirstCandidateMeta

----------------------------------------------------------------------------
(* C19 *)

\* the request n ended without metadata on the resolver's failure for the
\* heavyweight tool's error err: the message it is answered with is the
\* authentication message if err carries an authentication signal, and
\* otherwise the resolution failure that carries err
ResolverFailureOf(n, err) ==
    (n.pc = "done" /\ n.videoInfo = <<>>) =>
        /\ Len(n.resp) = 1
        /\ n.resp[1].http = 500
        /\ n.resp[1].body.error =
              IF IsAuthError(err) THEN AUTH_MESSAGE ELSE FailedInfo(err)

\* C19 as stated: whenever the heavyweight metadata tool fails with an
\* authentication/sign-in signal and no metadata is obtained, the resolver
\* fails with the distinct AuthRequired message about refreshing credentials;
\* every other unrecovered failure yields ResolutionFailed carrying the tool's
\* reason; this holds also when the failing error additionally carries the
\* format-not-available signal and the repeated lookup fails.
C19_AsStated ==
    \A r \in Reqs :
        LET rq == req[r]
        IN  /\ rq.pc = "ytdlp_info" =>
                  \A o \in InfoOutcomes :
                      ~o.ok => ResolverFailureOf(AfterYtdlpInfo(rq, o), o.err)
            /\ rq.pc = "yts_id2" =>
                  \A o \in LookupOutcomes :
                      ResolverFailureOf(AfterYtsId2(rq, o), rq.infoError)
            /\ rq.pc = "yts_url2" =>
                  \A o \in LookupOutcomes :
                      ResolverFailureOf(AfterYtsUrl2(rq, o), rq.infoError)

----------------------------------------------------------------------------
(* C20 *)

\* the request staged an output file: its job reached the extraction step
ReachedExtraction(rq) == IsDownloadRoute(rq) /\ rq.filename # <<>>

\* a per-file timer of request r is pending for its output file, due one
\* FILE_CLEANUP_AGE after the response
TimerPending(r) ==
    \E tm \in timers :
        /\ tm.owner = r
        /\ tm.path = req[r].filename[1]
        /\ tm.due = req[r].resp[1].at + FILE_CLEANUP_AGE

\* C20 as stated: every download job that reaches the extraction step has its
\* output file removed by a per-file cleanup timer, whatever the job's outcome:
\* success, failure of the whole chain and alternate pathway (possibly leaving
\* a partial file), or MissingFile.  Once the job is answered, the timer is
\* pending, or it has run and the file is gone.
C20_AsStated ==
    \A r \in Reqs :
        (ReachedExtraction(req[r]) /\ req[r].pc = "done") =>
            \/ TimerPending(r)
            \/ /\ now >= req[r].resp[1].at + FILE_CLEANUP_AGE
               /\ ~Exists(req[r].filename[1])

----------------------------------------------------------------------------
(* C21 *)

\* the step is a run of the periodic sweep
SweepStep == nextSweep' # nextSweep

\* the files whose modification time is more than the TTL in the past
OlderThanTTL == { f \in DOMAIN files : files[f].mtime + FILE_CLEANUP_AGE < now }

\* a run of the sweep, every deletion of which succeeds, removes exactly the
\* files older than the TTL; it leaves the other files as they are, and the
\* cookie file, the timers and the requests too; it runs at a multiple of 2
\* minutes and in standing-server mode only
SweepDeletesOld ==
    SweepStep =>
        /\ ~isVercel
        /\ now % SWEEP_INTERVAL = 0 /\ now > 0
        /\ (\A f \in OlderThanTTL : ~files[f].locked) =>
               DOMAIN files' = DOMAIN files \ OlderThanTTL
        /\ \A f \in DOMAIN files \ OlderThanTTL : f \in DOMAIN files' /\ files'[f] = files[f]
        /\ UNCHANGED <<cookies, timers, req, now>>

\* in serverless mode no sweep is pending and /downloads serves nothing; in
\* standing-server mode /downloads serves exactly the files that are there
StandingOnly ==
    /\ isVercel => nextSweep \notin Deadlines
    /\ ~isVercel => nextSweep \in Deadlines
    /\ \A fn \in Known :
          StaticDownloads(fn).http = IF ~isVercel /\ Exists(fn) THEN 200 ELSE 404

----------------------------------------------------------------------------
(* C22 *)

\* the step is the run of a per-file timer
TimerStep == timers' # timers /\ timers' \subseteq timers

\* a timer that finds its file gone, or fails to delete it, changes nothing
\* but its own disappearance; no timer touches a request
TimerIsBestEffort ==
    TimerStep =>
        /\ \A tm \in timers \ timers' :
              (~Exists(tm.path) \/ files[tm.path].locked) => files' = files
        /\ UNCHANGED <<req, nextSweep, now, cookies, dl>>

\* a sweep deletes every old file it can delete, whichever of the old files it
\* fails on, and touches no request and no timer
SweepIsBestEffort ==
    SweepStep =>
        /\ DOMAIN files' = DOMAIN files \ { f \in OlderThanTTL : ~files[f].locked }
        /\ \A f \in DOMAIN files' : files'[f] = files[f]
        /\ UNCHANGED <<req, timers, now, cookies, dl>>

\* C22: under every interleaving of the per-file timer, the periodic sweep and
\* external deletion, a deletion step that finds its file already gone (or fails
\* to delete it) completes without raising: it changes no state, does not stop
\* the sweep from processing the remaining files, and never affects any
\* request's response.
C22_DeletionIsBestEffort ==
    /\ [][TimerIsBestEffort]_vars
    /\ [][SweepIsBestEffort]_vars

\* a request's timer has run on a file that could not be deleted and left it
\* there, the other request's timer has run too and its file is gone; both
\* requests keep their success responses
C22_Witness ==
    \E r, q \in DirReqs :
        /\ r # q
        /\ req[r].pc = "done" /\ req[r].resp[1].http = 200
        /\ req[q].pc = "done" /\ req[q].resp[1].http = 200
        /\ req[r].filename # req[q].filename
        /\ timers = {}
        /\ Exists(req[r].filename[1])
        /\ files[req[r].filename[1]].locked
        /\ now = req[q].resp[1].at + FILE_CLEANUP_AGE
        /\ now < SWEEP_INTERVAL
        /\ ~Exists(req[q].filename[1])

----------------------------------------------------------------------------
(* C23 *)

\* the requests that an extraction step which succeeds now leaves behind
AfterExtraction(rq) ==
    CASE rq.pc = "format" -> { AfterFormat(rq, o) : o \in { x \in ChainOutcomes : x.ok } }
      [] rq.pc = "alt"    -> { AfterAlt(rq, o) : o \in { x \in AltOutcomes : x.ok } }
      [] rq.pc = "video"  -> { AfterVideo(rq, o) : o \in { x \in ChainOutcomes : x.ok } }
      [] OTHER            -> {}

\* the settle delay ends with the existence check, and not before; a path
\* that is absent then is answered with MissingFile (HTTP 500, a body that
\* reports failure) and gets no timer
CheckAfterSettle ==
    \A r \in Reqs :
        (req[r].pc = "settle" /\ req'[r].pc # "settle") =>
            /\ now = req[r].settleAt
            /\ req'[r].pc = "done"
            /\ Len(req'[r].resp) = 1
            /\ ~Exists(req[r].filename[1]) =>
                  /\ Failed(req'[r], 500)
                  /\ SubSeq(req'[r].resp[1].body.error, 1, 1) = M_NOT_FOUND_AFTER
                  /\ timers' = timers

\* C23 as stated: on every route that downloads locally, the output path is
\* checked for existence after a fixed settle delay of one second following
\* the extraction step; if the path is absent the request fails with
\* MissingFile (HTTP 500), no success response is sent and no cleanup timer is
\* scheduled for that path.
C23_AsStated ==
    /\ [](\A r \in Reqs :
            \A n \in AfterExtraction(req[r]) :
                n.pc = "settle" /\ n.resp = <<>> /\ n.settleAt = now + SETTLE_FLAT)
    /\ [][CheckAfterSettle]_vars

\* C23: as stated, except that the settle delay is one second on the flat
\* routes and half a second on the nested route.
C23_SettleThenCheck ==
    /\ [](\A r \in Reqs :
            \A n \in AfterExtraction(req[r]) :
                /\ n.pc = "settle" /\ n.resp = <<>>
                /\ n.settleAt = now + (IF IsNested(req[r]) THEN SETTLE_NESTED
                                                           ELSE SETTLE_FLAT))
    /\ [][CheckAfterSettle]_vars

\* a nested request whose file was absent half a second after its extraction
\* succeeded: MissingFile, and no timer
C23_Witness ==
    \E r \in Reqs :
        /\ IsNested(req[r])
        /\ Failed(req[r], 500)
        /\ req[r].settleAt # 0
        /\ req[r].resp[1].at = req[r].settleAt
        /\ now = SETTLE_NESTED
        /\ SubSeq(req[r].resp[1].body.error, 1, 1) = M_NOT_FOUND_AFTER
        /\ timers = {}

----------------------------------------------------------------------------
(* C24 *)

\* the request is in the local format chain, at its first specifier, which is
\* the last call it issued
AtChainStart(rq) ==
    /\ rq.pc = "format"
    /\ rq.fmt = 1
    /\ rq.resp = <<>>
    /\ rq.filename # <<>>
    /\ IsChainCall(rq.log[Len(rq.log)])
    /\ rq.log[Len(rq.log)].arg = FormatOptions[1]

\* C24: when no remote redirection endpoint is configured, requestTunnel
\* returns null without issuing any network request, and the nested-shape route
\* then proceeds to the local format chain.
C24_NoTunnelConfigured ==
    \A r \in Reqs :
        LET rq == req[r]
        IN  (IsNested(rq) /\ COBALT_URL = "") =>
              /\ CallsOf(rq, "cobalt") = {}
              /\ rq.pc # "cobalt"
              /\ rq.videoInfo # <<>> =>
                    (rq.filename # <<>> /\ ChainArgs(rq)[1] = FormatOptions[1])
              /\ rq.pc = "yts_id" =>
                    \A o \in LookupOutcomes :
                        (~o.throw /\ HasVideos(o.videos)) =>
                            AtChainStart(AfterYtsId(rq, o))
              /\ rq.pc = "ytdlp_info" =>
                    \A o \in InfoOutcomes : o.ok => AtChainStart(AfterYtdlpInfo(rq, o))

\* a nested request without a configured endpoint is in the chain, the
\* metadata lookup being its only other call
C24_Witness ==
    \E r \in Reqs :
        /\ IsNested(req[r])
        /\ COBALT_URL = ""
        /\ AtChainStart(req[r])
        /\ Len(req[r].log) = 2
        /\ req[r].log[1].op = "yts"

----------------------------------------------------------------------------
(* C25 *)

\* the tunnel service answered with a success status and a body that carries
\* a URL in one of the accepted fields
ReturnsUrl(o) ==
    /\ ~o.throw
    /\ o.ok
    /\ ~o.data.isNull
    /\ \/ o.data.url # <<>>
       \/ o.data.download_url # <<>>
       \/ o.data.result_url # <<>>
       \/ o.data.result_download_url # <<>>

\* what a failed tunnel request can say
TunnelMessages == { E_fetch, E_cobalt, <<"Cobalt error (status)">> }

\* C25: on the nested-shape route, every tunnel outcome other than a returned
\* URL (non-success HTTP status, response without a URL in any accepted field,
\* unparseable body, or a failed request) is treated as unavailable: the
\* request never fails because of it and always continues with the local
\* format chain.
C25_TunnelUnavailable ==
    \A r \in Reqs :
        LET rq == req[r]
        IN  /\ rq.pc = "cobalt" =>
                  /\ IsNested(rq)
                  /\ \A o \in CobaltOutcomes :
                        ~ReturnsUrl(o) => AtChainStart(AfterCobalt(rq, o))
            /\ (CallsOf(rq, "cobalt") # {} /\ rq.pc = "done" /\ rq.filename = <<>>) =>
                  rq.resp[1].http = 200
            /\ (rq.pc = "done" /\ rq.resp[1].http # 200 /\ IsNested(rq)) =>
                  rq.resp[1].body.error \notin TunnelMessages

\* the tunnel was asked, gave no URL, and the request is in the chain
C25_Witness ==
    \E r \in Reqs :
        /\ IsNested(req[r])
        /\ AtChainStart(req[r])
        /\ Len(req[r].log) >= 2
        /\ req[r].log[Len(req[r].log) - 1].op = "cobalt"

----------------------------------------------------------------------------
(* C26 *)

\* the calls that the step adds to the log of request r
NewCalls(r) ==
    { req'[r].log[i] : i \in (Len(req[r].log) + 1)..Len(req'[r].log) }

\* an invocation of the primary extraction tool
IsToolCall(c) == c.op \in {"ytdlp", "ytdlp_info"}

\* every call that a step issues is given the cookie file iff it is an
\* invocation of the tool and the file is there and non-empty in that step
CookiesAsOfNow ==
    \A r \in Reqs :
        \A c \in NewCalls(r) : c.cookies = (IsToolCall(c) /\ cookies = "nonempty")

\* C26: every invocation of the primary extraction tool (metadata extraction,
\* each audio specifier attempt on both audio routes, the video attempt) passes
\* the cookie file exactly when that file exists and is non-empty at the moment
\* of that invocation; the condition is re-evaluated for each attempt rather
\* than once per request.
C26_CookiesPerAttempt == [][CookiesAsOfNow]_vars

\* two consecutive attempts of one chain, the first without and the second
\* with the cookie file
C26_Witness ==
    \E r \in Reqs :
        \E i \in DOMAIN req[r].log :
            /\ i + 1 \in DOMAIN req[r].log
            /\ IsChainCall(req[r].log[i]) /\ ~req[r].log[i].cookies
            /\ IsChainCall(req[r].log[i + 1]) /\ req[r].log[i + 1].cookies

----------------------------------------------------------------------------
(* C27 *)

\* the names a request of SpecSweeping can stage
SweepingNames ==
    { [kind |-> k.kind, ts |-> t, ext |-> k.ext] :
        k \in { [kind |-> "audio", ext |-> "mp3"], [kind |-> "video", ext |-> "mp4"] },
        t \in {0} \cup StoreGrid }

\* C27: in standing-server mode, every file that is ever present in the
\* download directory (including partial files left by failed downloads and
\* files whose per-file timer was never scheduled) is eventually deleted,
\* assuming timers and the periodic sweep keep firing; each file's removal is
\* performed by whichever of the per-file timer or the sweep observes it first.
C27_EventuallyDeleted ==
    /\ [](DOMAIN files \subseteq SweepingNames)
    /\ \A f \in SweepingNames : (~isVercel /\ Exists(f)) ~> ~Exists(f)

\* the first sweep has run on a standing server: the partial file of a request
\* that failed, and so never scheduled a timer, is gone
C27_Witness ==
    /\ ~isVercel
    /\ now = SWEEP_INTERVAL
    /\ nextSweep = 2 * SWEEP_INTERVAL
    /\ timers = {}
    /\ \E r \in StoreReqs :
          /\ AltFailed(req[r])
          /\ req[r].filename # <<>>
          /\ ~Exists(req[r].filename[1])

----------------------------------------------------------------------------
(* C28 *)

\* the awaits at which a handler can be suspended: an external call that has
\* not returned, or the settle delay
Awaits ==
    { "yts_id", "yts_url", "ytdlp_info", "yts_id2", "yts_url2", "cobalt",
      "format", "alt", "video", "settle", "search" }

\* the answers GET /download can give in this state: one for each path and
\* each behaviour of the stream
DownloadAnswers ==
    { DownloadEndpoint(path, StreamOutcomes[i]) :
        path \in { Plain(fn) : fn \in Known } \cup OutsidePaths,
        i \in DOMAIN StreamOutcomes }

\* C28: each request to any endpoint sends exactly one HTTP response on every
\* execution path (never zero once its external calls have returned, never
\* two), including the paths through the resolver failure, chain failure,
\* alternate-pathway failure, MissingFile, API-key rejection and the outer
\* exception handler.
C28_ExactlyOneResponse ==
    /\ \A r \in Reqs :
          /\ Len(req[r].resp) <= 1
          /\ req[r].pc = "done" <=> Len(req[r].resp) = 1
          /\ req[r].pc \in {"idle", "done"} \cup Awaits
          /\ req[r].pc = "idle" => req[r].route = "none"
    /\ \A a \in DownloadAnswers :
          /\ a.http \in {200, 404, 500}
          /\ a.http = 200 <=> a.body = <<>>
          /\ a.http = 200 <=> a.streamed # "none"

\* the alternate pathway of a nested request failed: the outer handler sent
\* the one response
C28_Witness ==
    \E r \in Reqs :
        /\ IsNested(req[r])
        /\ AltFailed(req[r])
        /\ Len(req[r].resp) = 1
        /\ req[r].resp[1].http = 500

----------------------------------------------------------------------------
(* C29 *)

\* the name in the local download URL of a success response
LocalName(resp) ==
    IF "result" \in DOMAIN resp.body THEN resp.body.result.download_url.filename[1]
    ELSE resp.body.dl.filename[1]

\* the step sends the success response of request r
SuccessStep(r) ==
    /\ req[r].pc = "settle"
    /\ req'[r].pc = "done"
    /\ req'[r].resp[1].http = 200

\* C29: at the moment a success response advertising a local download URL is
\* sent, the advertised file exists in the download directory and a per-file
\* cleanup timer for it is pending, under every interleaving of that request
\* with the periodic sweep and with other requests' timers (which can run
\* during the settle delay but not between the existence check and the
\* response).
C29_AdvertisedFileThere ==
    [][\A r \in DirReqs :
          SuccessStep(r) =>
              LET fn == LocalName(req'[r].resp[1])
              IN  /\ fn = req[r].filename[1]
                  /\ req'[r].resp[1].at = now
                  /\ fn \in DOMAIN files /\ fn \in DOMAIN files'
                  /\ \E tm \in timers' :
                        tm.path = fn /\ tm.owner = r /\ tm.due = now + FILE_CLEANUP_AGE]_vars

\* a success response has just been sent, after the first sweep and after the
\* other request's timer ran: its file is there and its timer is pending
C29_Witness ==
    \E r, q \in DirReqs :
        /\ r # q
        /\ req[r].pc = "done" /\ req[r].resp[1].http = 200
        /\ req[r].resp[1].at = now
        /\ nextSweep = 2 * SWEEP_INTERVAL
        /\ Exists(LocalName(req[r].resp[1]))
        /\ TimerPending(r)
        /\ req[q].pc = "done" /\ req[q].resp[1].http = 200
        /\ now >= req[q].resp[1].at + FILE_CLEANUP_AGE
        /\ \A tm \in timers : tm.owner # q

----------------------------------------------------------------------------
(* C30 *)

\* request q has answered with a local download URL whose TTL has not elapsed
Advertising(q) ==
    /\ req[q].pc = "done"
    /\ req[q].resp[1].http = 200
    /\ now < req[q].resp[1].at + FILE_CLEANUP_AGE

\* the step is an extraction attempt of another request than q returning, or
\* the run of another request's timer
OtherActs(q) ==
    \E r \in DirReqs \ {q} :
        \/ req[r].pc \in {"format", "alt", "video"} /\ req'[r] # req[r]
        \/ \E tm \in timers \ timers' : tm.owner = r

\* the step neither creates, rewrites nor removes the file
Untouched(fn) ==
    /\ fn \in DOMAIN files <=> fn \in DOMAIN files'
    /\ fn \in DOMAIN files => files'[fn] = files[fn]

\* C30 as stated: for any two concurrent download requests, a request's
\* extraction attempts and its per-file cleanup timer touch only the file that
\* request staged: they never overwrite or delete a file that another
\* request's success response advertises while that other file is still within
\* its TTL; this holds also for two same-kind requests whose filenames are
\* generated in the same millisecond.
C30_AsStated ==
    [][\A q \in DirReqs :
          (Advertising(q) /\ OtherActs(q)) => Untouched(LocalName(req[q].resp[1]))]_vars

----------------------------------------------------------------------------
(* C31 *)

\* the calls of the resolver, and the calls that come after it
ResolverOps == {"yts", "ytdlp_info"}
LaterOps == {"cobalt", "ytdlp", "ytdl_core"}

\* the awaits inside getVideoInfo
ResolverAwaits == {"yts_id", "yts_url", "ytdlp_info", "yts_id2", "yts_url2"}

\* the request's input passes the checks that precede getVideoInfo
ResolverEntered(rq) ==
    /\ IsDownloadRoute(rq)
    /\ rq.url # <<>>
    /\ HostRecognized(rq.url)
    /\ IsNested(rq) => requireApiKey(rq.apikey)

\* getVideoInfo was called and the request ended without metadata
ResolutionFailed(rq) ==
    ResolverEntered(rq) /\ rq.pc = "done" /\ rq.videoInfo = <<>>

\* every tunnel request and extraction attempt was issued with the metadata
\* in hand, after the last call of the resolver
ResolvedFirst(rq) ==
    \A i \in DOMAIN rq.log :
        rq.log[i].op \in LaterOps =>
            /\ rq.videoInfo # <<>>
            /\ \A j \in DOMAIN rq.log : rq.log[j].op \in ResolverOps => j < i

\* nothing beyond the resolver's calls has happened for the one request
NothingStaged(rq) ==
    /\ \A i \in DOMAIN rq.log : rq.log[i].op \notin LaterOps
    /\ rq.filename = <<>>
    /\ files = NoFiles
    /\ timers = {}

\* C31: on every download route, metadata resolution completes before any
\* tunnel request or extraction attempt starts; when metadata resolution fails
\* the request is answered with an error and no tunnel request is made, no
\* extraction attempt is made, no file is staged in the download directory and
\* no cleanup timer is scheduled.
C31_ResolveFirst ==
    \A r \in Reqs :
        /\ IsDownloadRoute(req[r]) => ResolvedFirst(req[r])
        /\ req[r].pc \in ResolverAwaits => NothingStaged(req[r])
        /\ ResolutionFailed(req[r]) =>
              /\ Failed(req[r], 500)
              /\ NothingStaged(req[r])

\* the resolver failed after its heavyweight call, on each kind of route
C31_Witness ==
    \E r \in Reqs :
        /\ ResolutionFailed(req[r])
        /\ CallsOf(req[r], "ytdlp_info") # {}
        /\ CallsOf(req[r], "yts") # {}

----------------------------------------------------------------------------
(* C32 *)

\* what is left of a request that the key gate turned away: the one answer,
\* which is about the key whatever the url parameter is, and nothing else
TurnedAway(rq) ==
    /\ Failed(rq, 401)
    /\ rq.resp[1].body.error = M_INVALID_KEY
    /\ rq.log = <<>>
    /\ rq.videoId = <<>>
    /\ rq.videoInfo = <<>>
    /\ rq.filename = <<>>

\* a request arrives and the key gate turns it away
GateStep(r) == req[r].pc = "idle" /\ req'[r].pc # "idle" /\ GateRejects(req'[r])

\* the arrival of a rejected request leaves the download directory and the
\* timers as they are
GateLeavesDirectory ==
    \A r \in DirReqs :
        GateStep(r) => (TurnedAway(req'[r]) /\ files' = files /\ timers' = timers)

\* C32: on the nested-shape route with an API key configured, a request
\* rejected by the key gate is answered before the url parameter is examined
\* and causes no metadata lookup, no tunnel request, no extraction attempt, no
\* file creation and no timer; the download directory is unchanged by it.
C32_GateBeforeEverything ==
    /\ [][GateLeavesDirectory]_vars
    /\ [](\A r \in DirReqs :
            GateRejects(req[r]) =>
                (TurnedAway(req[r]) /\ \A tm \in timers : tm.owner # r))

\* a request without a url parameter was turned away for its key while a file
\* of the other request lay in the download directory under its timer
C32_Witness ==
    \E r \in DirReqs :
        /\ GateRejects(req[r])
        /\ req[r].url = U_missing
        /\ req[r].pc = "done"
        /\ \E tm \in timers :
              /\ tm.owner # r
              /\ Exists(tm.path)
              /\ files[tm.path].mtime <= req[r].resp[1].at
              /\ tm.due - FILE_CLEANUP_AGE <= req[r].resp[1].at

----------------------------------------------------------------------------
(* C33 *)

\* the answers of the tunnel service that the runs and the quantified checks
\* draw from
TunnelAnswers == CobaltOutcomes \cup GateCobaltOutcomes

\* the request was answered with success and a download_url that is not one
\* of this server
TunnelServed(rq) ==
    /\ IsNested(rq)
    /\ rq.pc = "done"
    /\ rq.resp[1].http = 200
    /\ rq.resp[1].body.result.download_url.filename = <<>>

\* the request ran no extraction and staged nothing
NothingLocal(rq) ==
    /\ CallsOf(rq, "ytdlp") = {}
    /\ CallsOf(rq, "ytdl_core") = {}
    /\ rq.filename = <<>>
    /\ rq.settleAt = 0

\* the answer to a request whose tunnel request returned o, a URL
ServedFromTunnel(n, o) ==
    /\ n.pc = "done"
    /\ Len(n.resp) = 1
    /\ n.resp[1].http = 200
    /\ n.resp[1].body.success = TRUE
    /\ n.resp[1].body.result.download_url = requestCobaltDownload(o).downloadUrl[1]
    /\ n.resp[1].body.result.download_url \in {TunnelUrl, TunnelUrl2}
    /\ NothingLocal(n)

\* the return of a tunnel request changes neither the download directory nor
\* the timers
TunnelLeavesDirectory ==
    \A r \in DirReqs :
        (req[r].pc = "cobalt" /\ req'[r] # req[r]) => (files' = files /\ timers' = timers)

TunnelPreferred ==
    \A r \in DirReqs :
        LET rq == req[r]
        IN  /\ rq.pc = "cobalt" =>
                  /\ IsNested(rq)
                  /\ COBALT_URL # ""
                  /\ \A o \in TunnelAnswers :
                        ReturnsUrl(o) => ServedFromTunnel(AfterCobalt(rq, o), o)
            /\ TunnelServed(rq) =>
                  /\ NothingLocal(rq)
                  /\ rq.log[Len(rq.log)].op = "cobalt"
                  /\ \A tm \in timers : tm.owner # r
            /\ (IsDownloadRoute(rq) /\ ~IsNested(rq)) =>
                  (CallsOf(rq, "cobalt") = {} /\ rq.pc # "cobalt")

\* C33: on the nested-shape route, when the tunnel returns a URL, the
\* response's download_url is exactly that URL, the local format chain and the
\* alternate pathway are not run, no file is written to the download directory
\* and no cleanup timer is scheduled; the flat-shape routes never issue a
\* tunnel request, whether or not a tunnel endpoint is configured.
C33_TunnelBypassesStorage ==
    [][TunnelLeavesDirectory]_vars /\ []TunnelPreferred

\* a nested request was served the tunnel's second URL while a flat request,
\* under the same configured endpoint, was served from the download directory
\* without a tunnel call
C33_Witness ==
    \E r, q \in DirReqs :
        /\ TunnelServed(req[r])
        /\ req[r].resp[1].body.result.download_url = TunnelUrl2
        /\ COBALT_URL # ""
        /\ req[q].route = "flat_mp3"
        /\ req[q].pc = "done"
        /\ req[q].resp[1].http = 200
        /\ req[q].resp[1].at <= req[r].resp[1].at
        /\ Exists(req[q].filename[1])
        /\ timers # {}

----------------------------------------------------------------------------
(* C34 *)

\* how many external calls of kind op the request has issued
Count(rq, op) == Cardinality(CallsOf(rq, op))

\* the external calls of a download request stay within their budget, and no
\* specifier of the chain is attempted twice
CallBounds(rq) ==
    /\ Count(rq, "yts") <= 4
    /\ Count(rq, "ytdlp_info") <= 1
    /\ Count(rq, "cobalt") <= 1
    /\ Count(rq, "ytdlp") <= (IF IsAudioRoute(rq) THEN Len(FormatOptions) ELSE 1)
    /\ Count(rq, "ytdl_core") <= (IF IsAudioRoute(rq) THEN 1 ELSE 0)
    /\ \A i, j \in CallsOf(rq, "ytdlp") : rq.log[i].arg = rq.log[j].arg => i = j
    /\ Len(rq.log) = Count(rq, "yts") + Count(rq, "ytdlp_info") + Count(rq, "cobalt")
                     + Count(rq, "ytdlp") + Count(rq, "ytdl_core")

\* C34: provided every external call returns (success or failure), every
\* download request terminates with a response after a bounded number of
\* external calls: at most four structured lookups and one heavyweight
\* metadata call in the resolver, at most one tunnel request, and at most six
\* specifier attempts plus one alternate-pathway attempt for audio (one attempt
\* for video); no step is ever retried in a loop.
C34_BoundedTermination ==
    /\ [](\A r \in Reqs : CallBounds(req[r]))
    /\ \A r \in Reqs :
          (req[r].pc # "idle") ~> (req[r].pc = "done" /\ Len(req[r].resp) = 1)

\* a request was answered after the longest run of calls: four lookups and
\* the heavyweight call, the tunnel request, six specifiers and the alternate
\* pathway
C34_Witness ==
    \E r \in Reqs :
        /\ req[r].pc = "done"
        /\ Count(req[r], "yts") = 4
        /\ Count(req[r], "ytdlp_info") = 1
        /\ Count(req[r], "cobalt") = 1
        /\ Count(req[r], "ytdlp") = Len(FormatOptions)
        /\ Count(req[r], "ytdl_core") = 1

====
